---- MODULE Spec2Model ----
(***************************************************************************)
(* BeerTracker: the scraping session controller (BaseScraper and its      *)
(* store variants), the product-matching rules (matchesKeyword,            *)
(* filterProduct) and the scrape job of the server (POST /api/scrape).     *)
(* Text is a sequence of one-character strings.                            *)
(***************************************************************************)
EXTENDS Integers, Sequences, FiniteSets, TLC

\* an optional value is a list of at most one element
None == <<>>
Some(x) == <<x>>
isSome(o) == o # <<>>
get(o) == o[1]

\* the null browser / page reference
NoId == 0

(***************************************************************************)
(* Bounds of the model                                                     *)
(***************************************************************************)
MaxStores == 2

(***************************************************************************)
(* Text: String.prototype.toLowerCase, includes, normalize                 *)
(***************************************************************************)
toLowerChar(c) ==
  CASE c = "A" -> "a" []
     c = "B" -> "b" []
     c = "C" -> "c" []
     c = "D" -> "d" []
     c = "E" -> "e" []
     c = "F" -> "f" []
     c = "G" -> "g" []
     c = "H" -> "h" []
     c = "I" -> "i" []
     c = "J" -> "j" []
     c = "K" -> "k" []
     c = "L" -> "l" []
     c = "M" -> "m" []
     c = "N" -> "n" []
     c = "O" -> "o" []
     c = "P" -> "p" []
     c = "Q" -> "q" []
     c = "R" -> "r" []
     c = "S" -> "s" []
     c = "T" -> "t" []
     c = "U" -> "u" []
     c = "V" -> "v" []
     c = "W" -> "w" []
     c = "X" -> "x" []
     c = "Y" -> "y" []
     c = "Z" -> "z" []
     c = "É" -> "é" []
     OTHER -> c

toLowerCase(t) == [i \in 1..Len(t) |-> toLowerChar(t[i])]

\* text.includes(k): k occurs in t as a contiguous substring
includes(t, k) ==
  \E i \in 0..(Len(t) - Len(k)) : SubSeq(t, i + 1, i + Len(k)) = k

\* NFKD decomposition followed by the removal of the combining marks
stripDiacritic(c) ==
  CASE c = "é" -> "e" []
       c = "è" -> "e" []
       c = "ë" -> "e" []
       c = "ï" -> "i" []
       OTHER -> c

isSeparator(c) == c \in {" ", "-", "."}

RECURSIVE dropSeparators(_)
dropSeparators(t) ==
  IF t = <<>> THEN <<>>
  ELSE IF isSeparator(Head(t)) THEN dropSeparators(Tail(t))
       ELSE <<Head(t)>> \o dropSeparators(Tail(t))

normalize(value) ==
  LET lower == toLowerCase(value)
      plain == [i \in 1..Len(lower) |-> stripDiacritic(lower[i])]
  IN  dropSeparators(plain)

\* `${a} ${b}`
joinSpace(a, b) == a \o <<" ">> \o b

\* arr.some(pred) over a sequence
some(arr, pred(_)) == \E i \in 1..Len(arr) : pred(arr[i])

(* the synonym table of matchesKeyword *)
hasSynonyms(k) == k \in {<<"b", "a", "k">>, <<"k", "r", "a", "t">>, <<"f", "l", "e", "s">>, <<"f", "l", "e", "s", "j", "e">>}

keywordSynonyms(k) ==
  CASE k = <<"b", "a", "k">> -> <<<<"k", "r", "a", "t">>, <<"c", "r", "a", "t", "e">>, <<"c", "a", "s", "e">>>> []
       k = <<"k", "r", "a", "t">> -> <<<<"b", "a", "k">>, <<"c", "r", "a", "t", "e">>, <<"c", "a", "s", "e">>>> []
       k = <<"f", "l", "e", "s">> -> <<<<"f", "l", "e", "s", "j", "e">>, <<"b", "o", "t", "t", "l", "e">>>> []
       k = <<"f", "l", "e", "s", "j", "e">> -> <<<<"f", "l", "e", "s">>, <<"b", "o", "t", "t", "l", "e">>>> []
       OTHER -> <<>>

matchesKeyword(text, keyword) ==
  LET lowerText == toLowerCase(text)
      lowerKeyword == toLowerCase(keyword)
      normalizedText == normalize(text)
      normalizedKeyword == normalize(keyword)
      synonymHit(syn) ==
        \/ includes(lowerText, syn)
        \/ /\ Len(normalize(syn)) > 0
           /\ includes(normalizedText, normalize(syn))
  IN  \/ includes(lowerText, lowerKeyword)
      \/ /\ Len(normalizedKeyword) > 0
         /\ includes(normalizedText, normalizedKeyword)
      \/ /\ hasSynonyms(lowerKeyword)
         /\ some(keywordSynonyms(lowerKeyword), synonymHit)

beerTerms ==
  <<<<"b", "i", "e", "r">>,
     <<"p", "i", "l", "s">>,
     <<"b", "e", "e", "r">>,
     <<"a", "l", "e">>,
     <<"l", "a", "g", "e", "r">>>>

alcoholFreePatterns ==
  <<<<"0", ".", "0", "%">>,
     <<"0", ",", "0", "%">>,
     <<"0", ".", "0", " ", "%">>,
     <<"0", ",", "0", " ", "%">>,
     <<"a", "l", "c", "o", "h", "o", "l", "v", "r", "i", "j">>,
     <<"a", "l", "c", "o", "h", "o", "l", "-", "f", "r", "e", "e">>,
     <<"a", "l", "c", "o", "h", "o", "l", " ", "f", "r", "e", "e">>,
     <<"a", "l", "c", "o", "h", "o", "l", " ", "v", "r", "i", "j">>,
     <<"z", "o", "n", "d", "e", "r", " ", "a", "l", "c", "o", "h", "o", "l">>,
     <<"n", "o", "n", "-", "a", "l", "c", "o", "h", "o", "l", "i", "c">>,
     <<"n", "o", "n", " ", "a", "l", "c", "o", "h", "o", "l", "i", "c">>,
     <<"z", "e", "r", "o", " ", "a", "l", "c", "o", "h", "o", "l">>,
     <<"0", "%", " ", "a", "l", "c", "o", "h", "o", "l">>,
     <<"0", " ", "%", " ", "a", "l", "c", "o", "h", "o", "l">>,
     <<"b", "l", "i", "k">>>>

excludeTerms ==
  <<<<"g", "l", "a", "s">>,
     <<"b", "e", "k", "e", "r">>,
     <<"k", "o", "e", "l", "e", "r">>,
     <<"o", "p", "e", "n", "e", "r">>,
     <<"f", "l", "e", "s", "o", "p", "e", "n", "e", "r">>,
     <<"b", "i", "e", "r", "g", "l", "a", "s">>,
     <<"b", "i", "e", "r", "b", "e", "k", "e", "r">>,
     <<"b", "i", "e", "r", "k", "o", "e", "l", "e", "r">>,
     <<"b", "i", "e", "r", "o", "p", "e", "n", "e", "r">>,
     <<"t", "-", "s", "h", "i", "r", "t">>,
     <<"s", "h", "i", "r", "t">>,
     <<"p", "e", "t">>,
     <<"m", "u", "t", "s">>,
     <<"s", "l", "e", "u", "t", "e", "l", "h", "a", "n", "g", "e", "r">>,
     <<"p", "o", "s", "t", "e", "r">>,
     <<"k", "a", "l", "e", "n", "d", "e", "r">>>>

(***************************************************************************)
(* Price parsing (extractPrice, the same in every variant).  A price is    *)
(* held in hundredths: 4.99 is 499.                                        *)
(***************************************************************************)
isDigit(c) == c \in {"0", "1", "2", "3", "4", "5", "6", "7", "8", "9"}

digitValue(c) ==
  CASE c = "0" -> 0 [] c = "1" -> 1 [] c = "2" -> 2 [] c = "3" -> 3 []
       c = "4" -> 4 [] c = "5" -> 5 [] c = "6" -> 6 [] c = "7" -> 7 []
       c = "8" -> 8 [] c = "9" -> 9

RECURSIVE dropChars(_, _)
dropChars(t, set) ==
  IF t = <<>> THEN <<>>
  ELSE IF Head(t) \in set THEN dropChars(Tail(t), set)
       ELSE <<Head(t)>> \o dropChars(Tail(t), set)

\* .replace(',', '.') replaces the first comma only
RECURSIVE replaceFirstComma(_)
replaceFirstComma(t) ==
  IF t = <<>> THEN <<>>
  ELSE IF Head(t) = "," THEN <<".">> \o Tail(t)
       ELSE <<Head(t)>> \o replaceFirstComma(Tail(t))

RECURSIVE digitRun(_)
digitRun(t) ==
  IF t # <<>> /\ isDigit(Head(t)) THEN <<Head(t)>> \o digitRun(Tail(t))
  ELSE <<>>

RECURSIVE fromFirstDigit(_)
fromFirstDigit(t) ==
  IF t = <<>> \/ isDigit(Head(t)) THEN t ELSE fromFirstDigit(Tail(t))

RECURSIVE digitsToInt(_)
digitsToInt(d) ==
  IF d = <<>> THEN 0
  ELSE digitsToInt(SubSeq(d, 1, Len(d) - 1)) * 10 + digitValue(d[Len(d)])

extractPrice(priceText) ==
  LET cleaned == replaceFirstComma(dropChars(dropChars(priceText, {"€", "$", "£"}), {" "}))
      start == fromFirstDigit(cleaned)
      whole == digitRun(start)
      rest == SubSeq(start, Len(whole) + 1, Len(start))
      frac == IF rest # <<>> /\ Head(rest) = "." THEN digitRun(Tail(rest)) ELSE <<>>
      cents == IF Len(frac) = 0 THEN 0
               ELSE IF Len(frac) = 1 THEN digitValue(frac[1]) * 10
               ELSE digitValue(frac[1]) * 10 + digitValue(frac[2])
  IN  IF start = <<>> THEN None ELSE Some(digitsToInt(whole) * 100 + cents)

\* `x || undefined` on a price: null and 0 both become undefined
orUndefined(v) == IF v = None \/ v = Some(0) THEN None ELSE v

(***************************************************************************)
(* Configuration: the stores and the target products of config.json        *)
(***************************************************************************)
N_Delhaize == <<"D", "e", "l", "h", "a", "i", "z", "e">>
N_Colruyt == <<"C", "o", "l", "r", "u", "y", "t">>
N_PrikenTik == <<"P", "r", "i", "k", "&", "T", "i", "k">>
N_Babylon == <<"B", "a", "b", "y", "l", "o", "n">>
N_Carrefour == <<"C", "a", "r", "r", "e", "f", "o", "u", "r">>
N_Aldi == <<"A", "l", "d", "i">>

StoreNames == {N_Delhaize, N_Colruyt, N_PrikenTik, N_Babylon, N_Carrefour, N_Aldi}

\* the order of config.supermarkets
ConfigStoreNames == <<N_Delhaize, N_Aldi, N_Colruyt, N_Carrefour, N_PrikenTik>>

K_jupiler == <<"j", "u", "p", "i", "l", "e", "r">>
K_stella == <<"s", "t", "e", "l", "l", "a">>
K_bak == <<"b", "a", "k">>
K_6x33 == <<"6", "x", "3", "3">>
K_24x25 == <<"2", "4", "x", "2", "5">>

\* Product of types/index.ts; an absent optional field is None and
\* storeOverrides is the list of the entries of the override map
ProductJupiler ==
  [name |-> <<"J", "u", "p", "i", "l", "e", "r", " ", "b", "a", "k">>,
   searchTerms |-> <<K_jupiler>>,
   requiredKeywords |-> Some(<<K_jupiler>>),
   mustContain |-> Some(<<K_bak>>),
   preferredKeywords |-> None,
   storeOverrides |-> Some(<<[key |-> N_Colruyt,
                         value |-> [searchTerms |-> None,
                                    requiredKeywords |-> None,
                                    mustContain |-> Some(<<K_24x25>>),
                                    preferredKeywords |-> None]]>>)]

ProductStella ==
  [name |-> <<"S", "t", "e", "l", "l", "a", " ", "6", "x", "3", "3">>,
   searchTerms |-> <<K_stella>>,
   requiredKeywords |-> Some(<<K_stella>>),
   mustContain |-> Some(<<K_6x33>>),
   preferredKeywords |-> Some(<<K_bak>>),
   storeOverrides |-> None]

ConfigProducts == <<ProductJupiler, ProductStella>>

(***************************************************************************)
(* The listings a store page can show                                      *)
(***************************************************************************)
ListingJupiler ==
  [name |-> <<"J", "u", "p", "i", "l", "e", "r", " ", "P", "i", "l", "s">>, priceText |-> <<"€", "1", "6", ",", "7", "9">>,
   link |-> "/jupiler", quantityText |-> <<"B", "a", "k", " ", "2", "4", "x", "2", "5", "c", "l">>]

ListingStella ==
  [name |-> <<"S", "t", "e", "l", "l", "a", " ", "A", "r", "t", "o", "i", "s", " ", "6", "x", "3", "3", "c", "l">>, priceText |-> <<"5", ",", "4", "9", " ", "€">>,
   link |-> "/stella", quantityText |-> <<>>]

ListingNoPrice ==
  [name |-> <<"J", "u", "p", "i", "l", "e", "r", " ", "k", "r", "a", "t">>, priceText |-> <<>>,
   link |-> "/krat", quantityText |-> <<>>]

ListingGlass ==
  [name |-> <<"J", "u", "p", "i", "l", "e", "r", " ", "g", "l", "a", "s">>, priceText |-> <<"P", "r", "i", "j", "s", " ", "o", "n", "b", "e", "k", "e", "n", "d">>,
   link |-> "/glas", quantityText |-> <<"b", "a", "k">>]

\* what a listing page can contain
PageContents ==
  {<<>>,
   <<ListingJupiler, ListingStella>>,
   <<ListingJupiler, ListingJupiler>>,
   <<ListingNoPrice, ListingGlass>>}

\* what a further result page can contain
NextPageContents == {<<>>, <<ListingStella>>}

AllContents == PageContents \cup NextPageContents

\* config.scraping of config.json; excludeAlcoholFree is optional
Configs == {[excludeAlcoholFree |-> Some(TRUE)]}

(***************************************************************************)
(* The arguments filterProduct is called with                              *)
(***************************************************************************)
\* productName: the names of catalog records
FilterNames ==
  {<<"J", "u", "p", "i", "l", "e", "r", " ", "P", "i", "l", "s", " ", "6", "x", "3", "3", "c", "l">>,
   <<"S", "t", "e", "l", "l", "a", " ", "A", "r", "t", "o", "i", "s", " ", "6", "x", "3", "3", "c", "l">>,
   <<"J", "u", "p", "i", "l", "e", "r", " ", "0", ".", "0", "%", " ", "6", "x", "3", "3", "c", "l">>,
   <<"J", "U", "P", "I", "L", "E", "R", " ", "P", "I", "L", "S", " ", "6", "X", "3", "3", "C", "L">>,
   <<"J", "u", "p", "i", "l", "é", "r", " ", "P", "i", "l", "s", " ", "6", "x", "3", "3", "c", "l">>,
   <<"J", "u", "p", "i", "l", "e", "r", " ", "b", "e", "k", "e", "r", " ", "6", "x", "3", "3", "c", "l">>,
   <<"J", "u", "p", "i", "l", "e", "r", " ", "b", "é", "k", "e", "r", " ", "6", "x", "3", "3", "c", "l">>,
   <<"C", "o", "l", "a", " ", "6", "x", "3", "3", "c", "l">>,
   <<"J", "u", "p", "i", "l", "e", "r", " ", "P", "i", "l", "s">>}

\* additionalText: absent (empty) or the quantity text of the record
FilterTexts ==
  {<<>>,
   <<"6", "x", "3", "3", "c", "l">>,
   <<"m", "e", "t", " ", "g", "l", "a", "s">>,
   <<"a", "l", "c", "o", "h", "o", "l", "v", "r", "i", "j">>}

\* product: the target products, one per combination of keyword lists
FilterProducts ==
  {[name |-> <<"J", "u", "p", "i", "l", "e", "r", " ", "6", "x", "3", "3", "c", "l">>,
    searchTerms |-> <<K_jupiler>>,
    requiredKeywords |-> required,
    mustContain |-> must,
    preferredKeywords |-> preferred,
    storeOverrides |-> None] :
     required \in {Some(<<K_jupiler>>), Some(<<K_stella, K_jupiler>>), Some(<<>>), None},
     must \in {Some(<<K_6x33>>), Some(<<K_24x25, K_6x33>>), None},
     preferred \in {Some(<<K_bak>>), Some(<<>>), None}}

\* this.config: excludeAlcoholFree true, false or absent
FilterConfigs == {[excludeAlcoholFree |-> flag] : flag \in {Some(TRUE), Some(FALSE), None}}

FilterInputs == FilterNames \X FilterProducts \X FilterTexts \X FilterConfigs

(***************************************************************************)
(* State                                                                   *)
(***************************************************************************)
VARIABLES
  \* the server (POST /api/scrape)
  isScraping,       \* let isScraping
  currentResults,   \* let currentResults
  allResults,       \* const allResults of the background job
  broadcasts,       \* the messages sent by broadcast(), oldest first
  jobStores,        \* supermarketsToScrape
  storeIdx,         \* position of the store loop (1-based)
  jobPc,            \* position of the request handler / background job
  saved,            \* what saveResults stored, None while nothing is stored
  \* the scraper object of the current store
  supermarket,      \* this.supermarket
  config,           \* this.config
  browser,          \* this.browser: NoId or a browser id
  page,             \* this.page: NoId or the id of the context the page is in
  cachedProducts,   \* this.cachedProducts: None or Some(list of records)
  pc,               \* position inside scrapeProducts
  results,          \* const results of scrapeProducts
  idx,              \* index of the target product of the loop (1-based)
  productResults,   \* const productResults of the loop body
  allProducts,      \* const allProducts of loadAllProducts (paginating variants)
  currentPage,      \* let currentPage of loadAllProducts (paginating variants)
  dom,              \* the listings of the document the page shows
  returned,         \* value returned by the last scrapeProducts call, or None
  \* the browsers and contexts that exist outside the object
  openBrowsers,     \* ids of the browser processes that run
  openContexts,     \* <<browser id, context id>> of the contexts that are open
  \* history of the current scrapeProducts call
  calls,            \* number of scrapeProducts calls made on the object
  cleanups,         \* number of cleanup() runs of this call
  initializes,      \* number of initialize() runs of this call
  launched,         \* ids of the browsers launched by this call
  navigations,      \* number of catalog navigations of this call
  resets,           \* number of resetContext() runs of this call
  delays,           \* the delays applied between products, oldest first
  tested,           \* indexes of the target products records were tested against
  callbacks,        \* the onProductFound invocations of this call, oldest first
  lastOp,           \* the last browser / page operation of this call
  \* history of the scraper object
  initialized,      \* initialize() has succeeded on the object
  closed,           \* cleanup() has run on the object
  opsAfterClose,    \* the operations performed after cleanup() had run
  pageUseUninit,    \* a page was used before initialize() had succeeded
  keptOldPage,      \* no resetContext() that failed to build the replacement
                    \* has changed this.page
  \* one call of a function that reads no state (filterProduct, ...)
  fn,               \* the function called, "none" when the job runs
  args,             \* the arguments of the call
  out               \* None before the call, then Some(returned value)

serverVars == <<isScraping, currentResults, allResults, broadcasts, jobStores,
                storeIdx, jobPc, saved>>
objectVars == <<supermarket, config, browser, page, cachedProducts>>
callVars == <<pc, results, idx, productResults, allProducts, currentPage, dom,
              returned>>
worldVars == <<openBrowsers, openContexts>>
traceVars == <<lastOp, initialized, closed, opsAfterClose, pageUseUninit,
               keptOldPage>>
historyVars == <<calls, cleanups, initializes, launched, navigations, resets,
                 delays, tested, callbacks, traceVars>>
functionVars == <<fn, args, out>>
vars == <<serverVars, objectVars, callVars, worldVars, historyVars,
          functionVars>>

(***************************************************************************)
(* Matching rules                                                          *)
(***************************************************************************)
\* `list && list.length > 0` on an optional list
nonEmptyList(l) == isSome(l) /\ Len(get(l)) > 0

\* a gate that lets every record pass
keywordGateOpen(configured, anyMatches) == TRUE

\* if (list && list.length > 0) { list.some(...) }: true when not entered
keywordGate(configured, anyMatches) ==
  IF configured THEN anyMatches ELSE TRUE

\* a flag that is set unless it is given as false
truthyWhenAbsent(flag) == IF isSome(flag) THEN get(flag) ELSE TRUE

\* if (flag): an absent flag is undefined and counts as false
truthy(flag) == isSome(flag) /\ get(flag)

\* a filter that rejects the record that has none of the preferred keywords
preferredRejects(hasPreferredKeyword) == hasPreferredKeyword

\* if (!hasPreferredKeyword) Logger.info(...): nothing is returned there
preferredVerdict(hasPreferredKeyword) == TRUE

\* this.config is the parameter scrapingConfig
filterProduct(productName, product, additionalText, scrapingConfig) ==
  LET nameLower == toLowerCase(productName)
      fullText == IF additionalText # <<>>
                  THEN joinSpace(nameLower, toLowerCase(additionalText))
                  ELSE nameLower
      matchesFull(keyword) == matchesKeyword(fullText, keyword)
      hasRequiredKeyword ==
        keywordGate(nonEmptyList(product.requiredKeywords),
                    some(get(product.requiredKeywords), matchesFull))
      hasAnyMustContain ==
        keywordGate(nonEmptyList(product.mustContain),
                    some(get(product.mustContain), matchesFull))
      hasBeerTerm == some(beerTerms, matchesFull)
      inFullText(pattern) == includes(fullText, toLowerCase(pattern))
      hasAlcoholFreePattern == some(alcoholFreePatterns, inFullText)
      inName(term) == includes(nameLower, term)
      hasExcludeTerm == some(excludeTerms, inName)
  IN  /\ hasRequiredKeyword
      /\ hasAnyMustContain
      /\ (hasBeerTerm \/ hasRequiredKeyword)
      /\ ~(truthy(scrapingConfig.excludeAlcoholFree) /\ hasAlcoholFreePattern)
      /\ ~hasExcludeTerm
      /\ nonEmptyList(product.preferredKeywords) =>
           preferredVerdict(some(get(product.preferredKeywords), matchesFull))

\* a ?? b
orElse(a, b) == IF isSome(a) THEN a ELSE b

\* normalizedOverrides[storeKey]: the last entry whose lower-cased key is storeKey
lookupOverride(entries, storeKey) ==
  LET hits == {i \in 1..Len(entries) : toLowerCase(entries[i].key) = storeKey}
  IN  IF hits = {} THEN None
      ELSE Some(entries[CHOOSE i \in hits : \A j \in hits : j <= i].value)

\* a scraper that ignores product.storeOverrides
applyNoOverrides(product, storeName) == product

\* this.supermarket.name is the parameter storeName
applyStoreOverrides(product, storeName) ==
  IF product.storeOverrides = None THEN product
  ELSE LET found == lookupOverride(get(product.storeOverrides),
                                   toLowerCase(storeName))
           override == get(found)
       IN  IF found = None THEN product
           ELSE [product EXCEPT
                   !.searchTerms = IF isSome(override.searchTerms)
                                   THEN get(override.searchTerms) ELSE @,
                   !.requiredKeywords = orElse(override.requiredKeywords, @),
                   !.mustContain = orElse(override.mustContain, @),
                   !.preferredKeywords = orElse(override.preferredKeywords, @)]

(***************************************************************************)
(* Extraction of the records of a page                                     *)
(***************************************************************************)
\* extractProductDetails: null when the name or the price text is missing
extractProductDetails(element) ==
  IF element.name = <<>> \/ element.priceText = <<>> THEN None
  ELSE Some([name |-> element.name,
        priceText |-> element.priceText,
        priceValue |-> orUndefined(extractPrice(element.priceText)),
        link |-> element.link,
        quantityText |-> element.quantityText])

\* extractProductDetails of BabylonScraper: null when the name is missing;
\* a missing price text is logged and the record is returned
extractProductDetailsBabylon(element) ==
  IF element.name = <<>> THEN None
  ELSE Some([name |-> element.name,
        priceText |-> element.priceText,
        priceValue |-> IF element.priceText = <<>> THEN None
                       ELSE extractPrice(element.priceText),
        link |-> element.link,
        quantityText |-> element.quantityText])

\* extractProductDetails of the scraper the factory built
extractProductDetailsOf(variantName, element) ==
  IF variantName = "BabylonScraper"
  THEN extractProductDetailsBabylon(element)
  ELSE extractProductDetails(element)

RECURSIVE extractAll(_)
extractAll(elements) ==
  IF elements = <<>> THEN <<>>
  ELSE LET details == extractProductDetails(Head(elements))
       IN  details \o extractAll(Tail(elements))

\* every listing, every extracted record and every page of the model
AllListings == UNION {{content[i] : i \in 1..Len(content)} : content \in AllContents}

\* the extraction and the filter are functions of their arguments: their
\* values over the listings of the model are tabulated once
ExtractedOf == [content \in AllContents |-> extractAll(content)]

FilterResult ==
  [k \in Configs \X StoreNames \X (1..Len(ConfigProducts)) \X
         {<<l.name, l.quantityText>> : l \in AllListings} |->
     filterProduct(k[4][1], applyStoreOverrides(ConfigProducts[k[3]], k[2]),
                   k[4][2], k[1])]

\* the loop over this.cachedProducts that builds the matches of the i-th
\* target product, resolved for the store
RECURSIVE matchesOf(_, _)
matchesOf(items, i) ==
  IF items = <<>> THEN <<>>
  ELSE LET item == Head(items)
       IN  (IF FilterResult[<<config, supermarket.name, i,
                              <<item.name, item.quantityText>>>>]
            THEN <<[productName |-> item.name,
                    supermarket |-> supermarket.name,
                    price |-> item.priceText,
                    priceValue |-> item.priceValue,
                    targetProduct |-> ConfigProducts[i].name,
                    link |-> item.link]>>
            ELSE <<>>) \o matchesOf(Tail(items), i)

(***************************************************************************)
(* ScraperFactory                                                          *)
(***************************************************************************)
\* the names ScraperFactory.create is called with: the names of the config,
\* their aliases, other letter cases, and names the switch does not know
FactoryNames ==
  StoreNames \cup
  {<<"D", "E", "L", "H", "A", "I", "Z", "E">>,
   <<"c", "o", "l", "r", "u", "y", "t">>,
   <<"B", "a", "b", "y", "l", "o", "n", " ", "D", "r", "i", "n", "k", "s">>,
   <<"B", "A", "B", "Y", "L", "O", "N">>,
   <<"p", "r", "i", "k", " ", "e", "n", " ", "t", "i", "k">>,
   <<"P", "r", "i", "k", "E", "n", "T", "i", "k">>,
   <<"P", "R", "I", "K", "&", "T", "I", "K">>,
   <<"c", "a", "r", "r", "e", "f", "o", "u", "r">>,
   <<"D", "e", "l", "h", "a", "i", "z", "e", " ">>,
   <<"L", "i", "d", "l">>,
   <<>>}

\* a switch on supermarket.name itself
ScraperFactoryCreateCaseSensitive(store) ==
  LET storeName == store.name
  IN  CASE storeName = <<"d", "e", "l", "h", "a", "i", "z", "e">> -> "DelhaizeScraper" []
           storeName = <<"c", "o", "l", "r", "u", "y", "t">> -> "ColruytScraper" []
           storeName \in {<<"b", "a", "b", "y", "l", "o", "n", " ", "d", "r", "i", "n", "k", "s">>,
                          <<"b", "a", "b", "y", "l", "o", "n">>} -> "BabylonScraper" []
           storeName \in {<<"p", "r", "i", "k", "&", "t", "i", "k">>,
                          <<"p", "r", "i", "k", " ", "e", "n", " ", "t", "i", "k">>,
                          <<"p", "r", "i", "k", "e", "n", "t", "i", "k">>} -> "PrikentikScraper" []
           storeName = <<"c", "a", "r", "r", "e", "f", "o", "u", "r">> -> "CarrefourScraper" []
           OTHER -> "none"

\* the variant ScraperFactory.create builds, "none" when it throws
ScraperFactoryCreate(store) ==
  LET storeName == toLowerCase(store.name)
  IN  CASE storeName = <<"d", "e", "l", "h", "a", "i", "z", "e">> -> "DelhaizeScraper" []
           storeName = <<"c", "o", "l", "r", "u", "y", "t">> -> "ColruytScraper" []
           storeName \in {<<"b", "a", "b", "y", "l", "o", "n", " ", "d", "r", "i", "n", "k", "s">>,
                          <<"b", "a", "b", "y", "l", "o", "n">>} -> "BabylonScraper" []
           storeName \in {<<"p", "r", "i", "k", "&", "t", "i", "k">>,
                          <<"p", "r", "i", "k", " ", "e", "n", " ", "t", "i", "k">>,
                          <<"p", "r", "i", "k", "e", "n", "t", "i", "k">>} -> "PrikentikScraper" []
           storeName = <<"c", "a", "r", "r", "e", "f", "o", "u", "r">> -> "CarrefourScraper" []
           OTHER -> "none"

VariantOf == [n \in FactoryNames |-> ScraperFactoryCreate([name |-> n])]

variant == VariantOf[supermarket.name]

\* a ColruytScraper that inherits scrapeProducts of BaseScraper
OverridingVariantsWithoutColruyt == {"DelhaizeScraper", "CarrefourScraper"}

\* the variants that override scrapeProducts (catalog first, then filtering)
OverridingVariants == {"DelhaizeScraper", "ColruytScraper", "CarrefourScraper"}

\* const isColruyt of BaseScraper.scrapeProducts
isColruytName(name) == includes(toLowerCase(name), toLowerCase(N_Colruyt))

IsColruytOf == [n \in StoreNames \cup {<<>>} |-> isColruytName(n)]

isColruyt == IsColruytOf[supermarket.name]

(***************************************************************************)
(* Session: initialize, resetContext, cleanup, navigateToUrl.              *)
(* Each operator gives the fields the call changes and the operations it   *)
(* performed; `outcome' says which awaited step, if any, threw.            *)
(***************************************************************************)
InitializeOutcomes ==
  {"ok", "launchFail", "contextFail", "contextScriptFail", "pageFail",
   "pageScriptFail"}

\* ids in use, and the smallest id that is not in the set S
usedIds ==
  openBrowsers \cup {bc[1] : bc \in openContexts} \cup {bc[2] : bc \in openContexts}
    \cup ({browser, page} \ {NoId})

freshId(S) ==
  CHOOSE n \in 1..(Cardinality(S) + 1) :
    n \notin S /\ \A m \in 1..(n - 1) : m \in S

initialize(outcome) ==
  LET b == freshId(usedIds)
      c == freshId(usedIds \cup {b})
  IN  IF outcome = "launchFail"
      THEN [browser |-> browser, page |-> page, openBrowsers |-> openBrowsers,
            openContexts |-> openContexts,
            launched |-> {}, events |-> <<>>, threw |-> TRUE]
      ELSE IF outcome = "contextFail"
      THEN [browser |-> b, page |-> page,
            openBrowsers |-> openBrowsers \cup {b},
            openContexts |-> openContexts,
            launched |-> {b}, events |-> <<"launch">>, threw |-> TRUE]
      ELSE IF outcome \in {"contextScriptFail", "pageFail"}
      THEN [browser |-> b, page |-> page,
            openBrowsers |-> openBrowsers \cup {b},
            openContexts |-> openContexts \cup {<<b, c>>},
            launched |-> {b}, events |-> <<"launch", "newContext">>,
            threw |-> TRUE]
      ELSE [browser |-> b, page |-> c,
            openBrowsers |-> openBrowsers \cup {b},
            openContexts |-> openContexts \cup {<<b, c>>},
            launched |-> {b},
            events |-> IF outcome = "ok"
                       THEN <<"launch", "newContext", "newPage", "initialized">>
                       ELSE <<"launch", "newContext", "newPage">>,
            threw |-> outcome # "ok"]

ResetOutcomes ==
  {"ok", "contextFail", "contextScriptFail", "pageFail", "pageScriptFail",
   "closeFail"}

\* so many contexts at most are left open beside the one of the page
MaxLeakedContexts == 1

\* the outcomes to tell apart when resetContext is called, or is not; once
\* MaxLeakedContexts contexts are left open, no further reset leaves one open
ResetOutcomesIf(called) ==
  IF ~called THEN {"ok"}
  ELSE IF Cardinality(openContexts) > MaxLeakedContexts THEN {"ok", "contextFail"}
  ELSE ResetOutcomes

\* resetContext on a session whose fields are b (browser) and p (page)
resetContext(b, p, contexts, id, outcome) ==
  IF b = NoId \/ p = NoId
  THEN [page |-> p, openContexts |-> contexts, events |-> <<>>,
        ran |-> FALSE]
  ELSE IF outcome = "contextFail" \/ b \notin openBrowsers
  THEN \* browser.newContext throws
       [page |-> p, openContexts |-> contexts,
        events |-> <<"createFailed">>, ran |-> TRUE]
  ELSE IF outcome \in {"contextScriptFail", "pageFail"}
  THEN \* newContext.addInitScript or newContext.newPage throws
       [page |-> p, openContexts |-> contexts \cup {<<b, id>>},
        events |-> <<"newContext", "createFailed">>, ran |-> TRUE]
  ELSE IF outcome = "pageScriptFail"
  THEN \* this.page.addInitScript throws: this.page is assigned already
       [page |-> id, openContexts |-> contexts \cup {<<b, id>>},
        events |-> <<"newContext", "newPage", "switchPage", "createFailed">>,
        ran |-> TRUE]
  ELSE IF outcome = "closeFail"
  THEN \* oldContext.close throws
       [page |-> id, openContexts |-> contexts \cup {<<b, id>>},
        events |-> <<"newContext", "newPage", "switchPage">>, ran |-> TRUE]
  ELSE [page |-> id, openContexts |-> (contexts \cup {<<b, id>>}) \ {<<b, p>>},
        events |-> <<"newContext", "newPage", "switchPage", "closeContext">>,
        ran |-> TRUE]

\* a cleanup() that logs and leaves the browser running
cleanupWithoutClose(b) ==
  [openBrowsers |-> openBrowsers, openContexts |-> openContexts,
   events |-> <<"cleanup">>]

\* cleanup: browser.close() ends the browser and every context in it
cleanup(b) ==
  IF b # NoId
  THEN [openBrowsers |-> openBrowsers \ {b},
        openContexts |-> {bc \in openContexts : bc[1] # b},
        events |-> <<"cleanup">>]
  ELSE [openBrowsers |-> openBrowsers, openContexts |-> openContexts,
        events |-> <<"cleanup">>]

NavigateOutcomes == {"ok", "fail"}

\* navigateToUrl: throws without a page, on a closed page and when goto fails
navigateToUrl(b, p, contexts, outcome, content) ==
  IF p = NoId
  THEN [threw |-> TRUE, dom |-> dom, events |-> <<>>, attempts |-> 0]
  ELSE IF <<b, p>> \notin contexts \/ outcome = "fail"
  THEN [threw |-> TRUE, dom |-> <<>>, events |-> <<"page">>, attempts |-> 1]
  ELSE [threw |-> FALSE, dom |-> content, events |-> <<"page">>, attempts |-> 1]

(***************************************************************************)
(* Result grouping of the server                                           *)
(***************************************************************************)
Infinity == 1000000000

\* result.targetProduct || result.productName
groupKey(result) ==
  IF result.targetProduct # <<>> THEN result.targetProduct ELSE result.productName

\* a.priceValue || Infinity
sortPrice(result) ==
  IF isSome(result.priceValue) /\ get(result.priceValue) # 0
  THEN get(result.priceValue) ELSE Infinity

\* Array.prototype.sort is stable: an entry goes behind the entries that do
\* not compare greater
RECURSIVE insertByPrice(_, _)
insertByPrice(sorted, result) ==
  IF sorted = <<>> THEN <<result>>
  ELSE IF sortPrice(Head(sorted)) <= sortPrice(result)
       THEN <<Head(sorted)>> \o insertByPrice(Tail(sorted), result)
       ELSE <<result>> \o sorted

RECURSIVE sortByPrice(_)
sortByPrice(list) ==
  IF list = <<>> THEN <<>>
  ELSE insertByPrice(sortByPrice(SubSeq(list, 1, Len(list) - 1)), list[Len(list)])

\* the keys in the order of their first occurrence
RECURSIVE groupKeys(_)
groupKeys(list) ==
  IF list = <<>> THEN <<>>
  ELSE LET before == groupKeys(SubSeq(list, 1, Len(list) - 1))
           key == groupKey(list[Len(list)])
       IN  IF \E i \in 1..Len(before) : before[i] = key
           THEN before ELSE Append(before, key)

processResults(list) ==
  LET keys == groupKeys(list)
      hasKey(key) == LET test(r) == groupKey(r) = key IN SelectSeq(list, test)
  IN  [i \in 1..Len(keys) |-> [key |-> keys[i], items |-> sortByPrice(hasKey(keys[i]))]]

\* the comparator of OutputGenerator.groupByProduct
compareDefinedFirst(a, b) ==
  IF a.priceValue = None THEN 1
  ELSE IF b.priceValue = None THEN -1
  ELSE get(a.priceValue) - get(b.priceValue)

\* Array.prototype.sort with that comparator: an entry goes before the
\* first entry it compares less than
RECURSIVE insertDefinedFirst(_, _)
insertDefinedFirst(sorted, result) ==
  IF sorted = <<>> THEN <<result>>
  ELSE IF compareDefinedFirst(result, Head(sorted)) < 0
       THEN <<result>> \o sorted
       ELSE <<Head(sorted)>> \o insertDefinedFirst(Tail(sorted), result)

RECURSIVE sortDefinedFirst(_)
sortDefinedFirst(list) ==
  IF list = <<>> THEN <<>>
  ELSE insertDefinedFirst(sortDefinedFirst(SubSeq(list, 1, Len(list) - 1)), list[Len(list)])

\* OutputGenerator.groupByProduct
groupByProduct(list) ==
  LET keys == groupKeys(list)
      hasKey(key) == LET test(r) == groupKey(r) = key IN SelectSeq(list, test)
  IN  [i \in 1..Len(keys) |-> [key |-> keys[i], items |-> sortDefinedFirst(hasKey(keys[i]))]]

(***************************************************************************)
(* Initial state: the server is up, no job runs, no scraper exists         *)
(***************************************************************************)
\* config.supermarkets of config.json: the stores in their order, each
\* enabled or not
ConfigSupermarketLists ==
  {[i \in 1..Len(ConfigStoreNames) |-> [name |-> ConfigStoreNames[i], enabled |-> i \in on] ] :
     on \in SUBSET (1..Len(ConfigStoreNames))}

\* the store names a request can ask for (lower case), {} when it names none
RequestedStores == {{}} \cup {{toLowerCase(ConfigStoreNames[i])} : i \in 1..Len(ConfigStoreNames)}

\* the server after start: no job runs, no scraper exists
Idle ==
  /\ isScraping = FALSE
  /\ currentResults = <<>>
  /\ allResults = <<>>
  /\ broadcasts = <<>>
  /\ jobStores = <<>>
  /\ storeIdx = 1
  /\ jobPc = "idle"
  /\ saved = None
  /\ supermarket = [name |-> <<>>, enabled |-> FALSE]
  /\ config \in Configs
  /\ browser = NoId
  /\ page = NoId
  /\ cachedProducts = None
  /\ pc = "none"
  /\ results = <<>>
  /\ idx = 1
  /\ productResults = <<>>
  /\ allProducts = <<>>
  /\ currentPage = 1
  /\ dom = <<>>
  /\ returned = None
  /\ openBrowsers = {}
  /\ openContexts = {}
  /\ calls = 0
  /\ cleanups = 0
  /\ initializes = 0
  /\ launched = {}
  /\ navigations = 0
  /\ resets = 0
  /\ delays = <<>>
  /\ tested = {}
  /\ callbacks = <<>>
  /\ lastOp = "none"
  /\ initialized = FALSE
  /\ closed = FALSE
  /\ opsAfterClose = {}
  /\ pageUseUninit = FALSE
  /\ keptOldPage = TRUE

Init ==
  /\ fn = "none"
  /\ args = None
  /\ out = None
  /\ Idle

(***************************************************************************)
(* History: what the operations `events' of one step add to it             *)
(***************************************************************************)
\* the entries of `events' that are no browser or page operation
Marks == {"initialized", "createFailed", "switchPage"}

lastOf(events, before) ==
  LET real == SelectSeq(events, LAMBDA e : e \notin Marks)
  IN  IF real = <<>> THEN before ELSE real[Len(real)]

record(events, before) ==
  LET ops == {events[i] : i \in 1..Len(events)}
  IN  /\ lastOp' = lastOf(events, before)
      /\ initialized' = (initialized \/ "initialized" \in ops)
      /\ closed' = (closed \/ "cleanup" \in ops)
      /\ opsAfterClose' = IF closed
                          THEN opsAfterClose \cup (ops \ (Marks \cup {"cleanup"}))
                          ELSE opsAfterClose
      /\ pageUseUninit' = (pageUseUninit \/ (~initialized /\ "page" \in ops))
      /\ keptOldPage' = (keptOldPage /\ ~({"createFailed", "switchPage"} \subseteq ops))

(***************************************************************************)
(* POST /api/scrape and the background job                                 *)
(***************************************************************************)
message(type, store, count, list) ==
  [type |-> type, supermarket |-> store, count |-> count, results |-> list]

\* the stores a request selects: the enabled ones, narrowed to the requested
supermarketsToScrapeOf(supermarkets, requestedLower) ==
  LET enabledOf(s) == s.enabled
      requestedOf(s) == toLowerCase(s.name) \in requestedLower
      enabledSupermarkets == SelectSeq(supermarkets, enabledOf)
  IN  IF requestedLower # {}
      THEN SelectSeq(enabledSupermarkets, requestedOf)
      ELSE enabledSupermarkets

\* a handler without the isScraping check at its head
postScrapeStatusUnguarded(scraping, loaded, requestedLower, supermarketsToScrape) ==
  IF ~loaded THEN 500
  ELSE IF requestedLower # {} /\ Len(supermarketsToScrape) = 0 THEN 400
  ELSE 200

\* the status the handler answers with: 400 while a job runs, 500 when the
\* configuration cannot be loaded, 400 when no enabled store was requested
postScrapeStatus(scraping, loaded, requestedLower, supermarketsToScrape) ==
  IF scraping THEN 400
  ELSE IF ~loaded THEN 500
  ELSE IF requestedLower # {} /\ Len(supermarketsToScrape) = 0 THEN 400
  ELSE 200

\* the handler up to the start of the background job; requests are followed
\* until the job they started has ended
PostScrape(supermarkets, requestedLower) ==
  LET supermarketsToScrape == supermarketsToScrapeOf(supermarkets, requestedLower)
  IN  /\ jobPc # "done"
      /\ postScrapeStatus(isScraping, TRUE, requestedLower, supermarketsToScrape) = 200
      /\ Len(supermarketsToScrape) <= MaxStores
      /\ isScraping' = TRUE
      /\ currentResults' = <<>>
      /\ allResults' = <<>>
      /\ jobStores' = supermarketsToScrape
      /\ storeIdx' = 1
      /\ broadcasts' = Append(broadcasts, message("started", <<>>, 0, <<>>))
      /\ jobPc' = "job"
      /\ UNCHANGED <<saved, objectVars, callVars, worldVars, historyVars>>
      /\ UNCHANGED functionVars

\* a request the handler answers with an error status: it returns before the
\* assignments to isScraping and currentResults
PostScrapeRejected ==
  /\ ~ \A loaded \in BOOLEAN, supermarkets \in ConfigSupermarketLists,
         requestedLower \in RequestedStores :
        postScrapeStatus(isScraping, loaded, requestedLower,
          supermarketsToScrapeOf(supermarkets, requestedLower)) = 200
  /\ UNCHANGED vars

\* head of the store loop: ScraperFactory.create builds the scraper
JobNextStore ==
  /\ jobPc = "job"
  /\ storeIdx <= Len(jobStores)
  /\ VariantOf[jobStores[storeIdx].name] # "none"
  /\ broadcasts' = Append(broadcasts, message("processing", jobStores[storeIdx].name, 0, <<>>))
  \* new XxxScraper(supermarket, config): browser, page and cache are null
  /\ supermarket' = jobStores[storeIdx]
  /\ browser' = NoId
  /\ page' = NoId
  /\ cachedProducts' = None
  /\ pc' = "call"
  /\ jobPc' = "scraping"
  /\ UNCHANGED <<isScraping, currentResults, allResults, jobStores, storeIdx,
                 saved, config, results, idx, productResults, allProducts,
                 currentPage, dom, returned, worldVars, historyVars>>
  /\ UNCHANGED functionVars

\* head of the store loop: ScraperFactory.create throws, the loop goes on
JobUnsupportedStore ==
  /\ jobPc = "job"
  /\ storeIdx <= Len(jobStores)
  /\ VariantOf[jobStores[storeIdx].name] = "none"
  /\ broadcasts' = broadcasts \o
       <<message("processing", jobStores[storeIdx].name, 0, <<>>),
         message("error", jobStores[storeIdx].name, 0, <<>>)>>
  /\ storeIdx' = storeIdx + 1
  /\ UNCHANGED <<isScraping, currentResults, allResults, jobStores, jobPc, saved,
                 objectVars, callVars, worldVars, historyVars>>
  /\ UNCHANGED functionVars

\* existing.productName === r.productName && ... of the remaining-results filter
sameEntry(a, b) ==
  /\ a.productName = b.productName
  /\ a.supermarket = b.supermarket
  /\ a.link = b.link

remainingResults(list, existing) ==
  LET isNew(r) == ~\E i \in 1..Len(existing) : sameEntry(existing[i], r)
  IN  SelectSeq(list, isNew)

\* scrapeProducts has returned: the results the callback did not deliver
JobCollect ==
  /\ jobPc = "scraping"
  /\ pc = "returned"
  /\ LET newResults == remainingResults(get(returned), allResults)
     IN  IF Len(newResults) > 0
         THEN /\ allResults' = allResults \o newResults
              /\ currentResults' = allResults'
              /\ broadcasts' = Append(broadcasts,
                   message("progress", supermarket.name, Len(newResults), <<>>))
         ELSE UNCHANGED <<allResults, currentResults, broadcasts>>
  /\ storeIdx' = storeIdx + 1
  /\ jobPc' = "job"
  \* the scraper object and the locals of the call go out of scope
  /\ supermarket' = [name |-> <<>>, enabled |-> FALSE]
  /\ browser' = NoId
  /\ page' = NoId
  /\ cachedProducts' = None
  /\ pc' = "none"
  /\ results' = <<>>
  /\ idx' = 1
  /\ productResults' = <<>>
  /\ allProducts' = <<>>
  /\ currentPage' = 1
  /\ dom' = <<>>
  /\ returned' = None
  /\ calls' = 0
  /\ cleanups' = 0
  /\ initializes' = 0
  /\ launched' = {}
  /\ navigations' = 0
  /\ resets' = 0
  /\ delays' = <<>>
  /\ tested' = {}
  /\ callbacks' = <<>>
  /\ lastOp' = "none"
  /\ initialized' = FALSE
  /\ closed' = FALSE
  /\ opsAfterClose' = {}
  /\ pageUseUninit' = FALSE
  /\ keptOldPage' = TRUE
  /\ UNCHANGED <<isScraping, jobStores, saved, config, worldVars>>
  /\ UNCHANGED functionVars

SaveOutcomes == {"ok", "unavailable", "throws"}

\* a saveResults outside its try block: its exception reaches the outer catch
completionWithoutCatch(saveOutcome, list) ==
  IF saveOutcome = "throws"
  THEN <<message("error", <<>>, 0, <<>>)>>
  ELSE <<message("complete", <<>>, Len(list), processResults(list))>>

\* try { await saveResults(allResults) } catch { log }, then the broadcast
completionMessages(saveOutcome, list) ==
  <<message("complete", <<>>, Len(list), processResults(list))>>

\* a job whose flag is not reset when it ends
flagLeftSet(scraping) == scraping

\* finally { isScraping = false }
flagAfterJob(scraping) == FALSE

\* after the store loop: saveResults, the 'complete' broadcast, the finally
JobFinish(saveOutcome) ==
  /\ jobPc = "job"
  /\ storeIdx > Len(jobStores)
  /\ currentResults' = allResults
  /\ saved' = IF saveOutcome = "ok" THEN Some(allResults) ELSE saved
  /\ broadcasts' = broadcasts \o completionMessages(saveOutcome, allResults)
  /\ isScraping' = flagAfterJob(isScraping)
  /\ jobPc' = "done"
  /\ UNCHANGED <<allResults, jobStores, storeIdx, objectVars, callVars,
                 worldVars, historyVars>>
  /\ UNCHANGED functionVars

(***************************************************************************)
(* scrapeProducts                                                          *)
(***************************************************************************)
MaxPagesCarrefour == 5
MaxPagesColruyt == 3

\* an assignment in place of the push
pushReplacing(list, found) == found

\* results.push(...productResults)
push(list, found) == list \o found

\* an initialize() outside the try block whose failure is ignored
afterInitializeIgnoringFailure(threw, overriding) ==
  IF overriding THEN "load" ELSE "loop"

\* after `await this.initialize()`: the catch and the finally when it threw
afterInitializePc(threw, overriding) ==
  IF threw THEN "cleanup" ELSE IF overriding THEN "load" ELSE "loop"

\* where the product loop goes after product i - 1: the loop or the finally
loopPc(i) == IF i > Len(ConfigProducts) THEN "cleanup" ELSE "loop"

\* `if (!this.cachedProducts || this.cachedProducts.length === 0) return results`
afterLoadPc(cache) ==
  IF cache = None \/ Len(get(cache)) = 0 THEN "cleanup" ELSE "loop"

\* entry of scrapeProducts up to the end of `await this.initialize()`
ScrapeProductsStart(outcome) ==
  /\ jobPc = "scraping"
  /\ pc = "call"
  /\ calls' = calls + 1
  /\ results' = <<>>
  /\ productResults' = <<>>
  /\ idx' = 1
  /\ allProducts' = <<>>
  /\ currentPage' = 1
  /\ cleanups' = 0
  /\ navigations' = 0
  /\ resets' = 0
  /\ delays' = <<>>
  /\ tested' = {}
  /\ callbacks' = <<>>
  /\ IF ~supermarket.enabled
     THEN /\ returned' = Some(<<>>)
          /\ pc' = "returned"
          /\ initializes' = 0
          /\ launched' = {}
          /\ UNCHANGED <<browser, page, worldVars, initialized, closed,
                         opsAfterClose, pageUseUninit, keptOldPage>>
          /\ lastOp' = "none"
     ELSE LET r == initialize(outcome)
          IN  /\ browser' = r.browser
              /\ page' = r.page
              /\ openBrowsers' = r.openBrowsers
              /\ openContexts' = r.openContexts
              /\ record(r.events, "none")
              /\ initializes' = 1
              /\ launched' = r.launched
              /\ returned' = None
              /\ pc' = afterInitializePc(r.threw, variant \in OverridingVariants)
  /\ UNCHANGED <<serverVars, supermarket, config, cachedProducts, dom>>
  /\ UNCHANGED functionVars

\* loadAllProducts of the variants that read one listing page (Delhaize,
\* Prik&Tik, Babylon): the cache check, the navigation, the extraction
loadAllProducts(b, p, contexts, cache, outcome, content) ==
  IF p = NoId
  THEN [threw |-> TRUE, cache |-> cache, dom |-> dom, events |-> <<>>,
        attempts |-> 0]
  ELSE IF isSome(cache)
  THEN [threw |-> FALSE, cache |-> cache, dom |-> dom, events |-> <<>>,
        attempts |-> 0]
  ELSE LET nav == navigateToUrl(b, p, contexts, outcome, content)
       IN  [threw |-> nav.threw,
            cache |-> IF nav.threw THEN cache ELSE Some(ExtractedOf[nav.dom]),
            dom |-> nav.dom, events |-> nav.events, attempts |-> nav.attempts]

\* DelhaizeScraper.scrapeProducts: `await this.loadAllProducts(products)` and
\* the check of the cache that follows
LoadDelhaize(outcome, content) ==
  /\ pc = "load"
  /\ variant = "DelhaizeScraper"
  /\ LET load == loadAllProducts(browser, page, openContexts, cachedProducts,
                                 outcome, content)
     IN  /\ dom' = load.dom
         /\ navigations' = navigations + load.attempts
         /\ record(load.events, lastOp)
         /\ cachedProducts' = load.cache
         /\ pc' = IF load.threw THEN "cleanup" ELSE afterLoadPc(load.cache)
  /\ UNCHANGED <<serverVars, supermarket, config, browser, page, results, idx,
                 productResults, allProducts, currentPage, returned, worldVars,
                 calls, cleanups, initializes, launched, resets, delays, tested,
                 callbacks>>
  /\ UNCHANGED functionVars

\* ColruytScraper.loadAllProducts up to the pagination loop
ColruytFirstPage(outcome, content) ==
  /\ pc = "load"
  /\ variant = "ColruytScraper"
  /\ IF isSome(cachedProducts)
     THEN /\ pc' = afterLoadPc(cachedProducts)
          /\ UNCHANGED <<dom, navigations, traceVars, currentPage>>
     ELSE LET nav == navigateToUrl(browser, page, openContexts, outcome, content)
          IN  /\ dom' = nav.dom
              /\ navigations' = navigations + nav.attempts
              /\ record(nav.events, lastOp)
              /\ currentPage' = 1
              /\ pc' = IF nav.threw THEN "cleanup" ELSE "pages"
  /\ UNCHANGED <<serverVars, objectVars, results, idx, productResults,
                 allProducts, returned, worldVars, calls, cleanups, initializes,
                 launched, resets, delays, tested, callbacks>>
  /\ UNCHANGED functionVars

\* one turn of `while (hasMorePages && currentPage < maxPages)`; when the
\* loop ends, the extraction from the document the page shows
ColruytPagination(nextPageExists, outcome, content) ==
  /\ pc = "pages"
  /\ variant = "ColruytScraper"
  /\ IF nextPageExists
     THEN LET nav == navigateToUrl(browser, page, openContexts, outcome, content)
          IN  /\ currentPage' = currentPage + 1
              /\ dom' = nav.dom
              /\ navigations' = navigations + nav.attempts
              /\ record(nav.events, lastOp)
              /\ IF nav.threw
                 THEN /\ pc' = "cleanup"
                      /\ UNCHANGED cachedProducts
                 ELSE IF currentPage' < MaxPagesColruyt
                 THEN /\ pc' = "pages"
                      /\ UNCHANGED cachedProducts
                 ELSE /\ cachedProducts' = Some(ExtractedOf[dom'])
                      /\ pc' = afterLoadPc(cachedProducts')
     ELSE /\ cachedProducts' = Some(ExtractedOf[dom])
          /\ pc' = afterLoadPc(cachedProducts')
          /\ UNCHANGED <<currentPage, dom, navigations, traceVars>>
  /\ UNCHANGED <<serverVars, supermarket, config, browser, page, results, idx,
                 productResults, allProducts, returned, worldVars, calls,
                 cleanups, initializes, launched, resets, delays, tested,
                 callbacks>>
  /\ UNCHANGED functionVars

\* CarrefourScraper.loadAllProducts up to the pagination loop
CarrefourFirstPage(outcome, content) ==
  /\ pc = "load"
  /\ variant = "CarrefourScraper"
  /\ IF isSome(cachedProducts)
     THEN /\ pc' = afterLoadPc(cachedProducts)
          /\ UNCHANGED <<cachedProducts, allProducts, dom, navigations, traceVars,
                         currentPage>>
     ELSE LET nav == navigateToUrl(browser, page, openContexts, outcome, content)
          IN  /\ dom' = nav.dom
              /\ navigations' = navigations + nav.attempts
              /\ record(nav.events, lastOp)
              /\ IF nav.threw
                 THEN /\ pc' = "cleanup"
                      /\ UNCHANGED <<cachedProducts, allProducts, currentPage>>
                 ELSE IF Len(nav.dom) = 0
                 THEN /\ cachedProducts' = Some(<<>>)
                      /\ pc' = afterLoadPc(cachedProducts')
                      /\ UNCHANGED <<allProducts, currentPage>>
                 ELSE /\ allProducts' = ExtractedOf[nav.dom]
                      /\ currentPage' = 2
                      /\ pc' = "pages"
                      /\ UNCHANGED cachedProducts
  /\ UNCHANGED <<serverVars, supermarket, config, browser, page, results, idx,
                 productResults, returned, worldVars, calls, cleanups,
                 initializes, launched, resets, delays, tested, callbacks>>
  /\ UNCHANGED functionVars

PageOutcomes == {"ok", "fail", "blocked"}

\* a loop without page cap: it ends on a break alone
carrefourLoopEndsOnBreak(stop, nextPage) == stop

\* the loop is left by a break or when `currentPage <= maxPages` fails
carrefourLoopEnds(stop, nextPage) == stop \/ nextPage > MaxPagesCarrefour

\* one turn of `while (currentPage <= maxPages)`: the reset, the navigation,
\* the checks and the extraction; a break assigns the cache
CarrefourPagination(resetOutcome, outcome, content) ==
  /\ pc = "pages"
  /\ variant = "CarrefourScraper"
  /\ currentPage <= MaxPagesCarrefour
  /\ LET rs == resetContext(browser, page, openContexts, freshId(usedIds), resetOutcome)
         nav == navigateToUrl(browser, rs.page, rs.openContexts,
                              IF outcome = "fail" THEN "fail" ELSE "ok",
                              IF outcome = "blocked" THEN <<>> ELSE content)
         extracted == ExtractedOf[nav.dom]
         stop == \/ nav.threw
                 \/ outcome = "blocked"
                 \/ Len(nav.dom) = 0
                 \/ Len(extracted) = 0
     IN  /\ page' = rs.page
         /\ openContexts' = rs.openContexts
         /\ resets' = resets + (IF rs.ran THEN 1 ELSE 0)
         /\ dom' = nav.dom
         /\ navigations' = navigations + nav.attempts
         /\ record(rs.events \o nav.events, lastOp)
         /\ allProducts' = IF stop THEN allProducts ELSE allProducts \o extracted
         /\ currentPage' = IF stop THEN currentPage ELSE currentPage + 1
         /\ IF carrefourLoopEnds(stop, currentPage')
            THEN /\ cachedProducts' = Some(allProducts')
                 /\ pc' = afterLoadPc(cachedProducts')
            ELSE /\ pc' = "pages"
                 /\ UNCHANGED cachedProducts
  /\ UNCHANGED <<serverVars, supermarket, config, browser, results, idx,
                 productResults, returned, openBrowsers, calls, cleanups,
                 initializes, launched, delays, tested, callbacks>>
  /\ UNCHANGED functionVars

\* the loop body of the overriding variants up to the callback: the records
\* of the cache are tested against the resolved product
MatchProduct ==
  /\ pc = "loop"
  /\ variant \in OverridingVariants
  /\ idx <= Len(ConfigProducts)
  /\ \E found \in {matchesOf(get(cachedProducts), idx)} :
         /\ productResults' = found
         /\ tested' = tested \cup {idx}
         /\ IF Len(found) > 0
            THEN /\ results' = push(results, found)
                 /\ pc' = "callback"
                 /\ UNCHANGED idx
            ELSE /\ idx' = idx + 1
                 /\ pc' = loopPc(idx')
                 /\ UNCHANGED results
  /\ UNCHANGED <<serverVars, objectVars, allProducts, currentPage, dom, returned,
                 worldVars, calls, cleanups, initializes, launched, navigations,
                 resets, delays, callbacks, traceVars>>
  /\ UNCHANGED functionVars

\* searchProduct of PrikentikScraper and BabylonScraper: errors of the load
\* are caught and give an empty list
searchProduct(b, p, contexts, cache, i, outcome, content) ==
  IF p = NoId
  THEN [threw |-> TRUE, cache |-> cache, dom |-> dom, events |-> <<>>,
        attempts |-> 0, scanned |-> FALSE, found |-> <<>>]
  ELSE LET load == loadAllProducts(b, p, contexts, cache, outcome, content)
           scanned == ~load.threw /\ isSome(load.cache) /\ Len(get(load.cache)) > 0
       IN  [threw |-> FALSE, cache |-> load.cache, dom |-> load.dom,
            events |-> load.events, attempts |-> load.attempts,
            scanned |-> scanned,
            found |-> IF scanned THEN matchesOf(get(load.cache), i) ELSE <<>>]

\* the delay of BaseScraper.scrapeProducts after a product
delayAfterSearch == IF isColruyt THEN "longDelay(8000, 15000)" ELSE "randomDelay"

\* the loop body of BaseScraper.scrapeProducts up to the callback
SearchProduct(resetOutcome, outcome, content) ==
  /\ pc = "loop"
  /\ variant \notin OverridingVariants
  /\ idx <= Len(ConfigProducts)
  /\ LET doReset == isColruyt /\ idx > 1
         resetDelay == IF doReset THEN <<"longDelay(5000, 10000)">> ELSE <<>>
     IN
     \E rs \in {IF doReset
                THEN resetContext(browser, page, openContexts, freshId(usedIds),
                                  resetOutcome)
                ELSE [page |-> page, openContexts |-> openContexts,
                      events |-> <<>>, ran |-> FALSE]} :
     \E search \in {searchProduct(browser, rs.page, rs.openContexts,
                                  cachedProducts, idx, outcome, content)} :
         /\ page' = rs.page
         /\ openContexts' = rs.openContexts
         /\ resets' = resets + (IF rs.ran THEN 1 ELSE 0)
         /\ cachedProducts' = search.cache
         /\ dom' = search.dom
         /\ navigations' = navigations + search.attempts
         /\ record(rs.events \o search.events, lastOp)
         /\ tested' = IF search.scanned THEN tested \cup {idx} ELSE tested
         /\ productResults' = search.found
         /\ IF search.threw
            THEN \* the catch of the loop body
                 /\ idx' = idx + 1
                 /\ pc' = loopPc(idx')
                 /\ delays' = delays \o resetDelay \o
                      (IF isColruyt THEN <<"longDelay(10000, 20000)">> ELSE <<>>)
                 /\ UNCHANGED results
            ELSE IF Len(search.found) > 0
            THEN /\ results' = push(results, search.found)
                 /\ pc' = "callback"
                 /\ delays' = delays \o resetDelay
                 /\ UNCHANGED idx
            ELSE /\ idx' = idx + 1
                 /\ pc' = loopPc(idx')
                 /\ delays' = delays \o resetDelay \o <<delayAfterSearch>>
                 /\ UNCHANGED results
  /\ UNCHANGED <<serverVars, supermarket, config, browser, allProducts,
                 currentPage, returned, openBrowsers, calls, cleanups,
                 initializes, launched, callbacks>>
  /\ UNCHANGED functionVars

\* onProductFound(productResults, results): the callback of the server, and
\* what scrapeProducts does when it returns or throws
Callback(throws, resetOutcome) ==
  /\ pc = "callback"
  /\ callbacks' = Append(callbacks,
       [product |-> idx, newResults |-> productResults, allResults |-> results,
        tested |-> tested])
  /\ allResults' = allResults \o productResults
  /\ currentResults' = allResults'
  /\ broadcasts' = IF throws THEN broadcasts
                   ELSE Append(broadcasts,
                          message("progress", supermarket.name,
                                  Len(productResults), <<>>))
  /\ IF variant \in OverridingVariants
     THEN \* no try around the loop body: the throw leaves the loop
          /\ idx' = IF throws THEN idx ELSE idx + 1
          /\ pc' = IF throws THEN "cleanup" ELSE loopPc(idx')
          /\ UNCHANGED <<page, openContexts, resets, delays, traceVars>>
     ELSE \* the try of the loop body catches the throw
          LET doReset == throws /\ isColruyt
              rs == IF doReset
                    THEN resetContext(browser, page, openContexts,
                                      freshId(usedIds), resetOutcome)
                    ELSE [page |-> page, openContexts |-> openContexts,
                          events |-> <<>>, ran |-> FALSE]
          IN  /\ idx' = idx + 1
              /\ pc' = loopPc(idx')
              /\ page' = rs.page
              /\ openContexts' = rs.openContexts
              /\ resets' = resets + (IF rs.ran THEN 1 ELSE 0)
              /\ record(rs.events, lastOp)
              /\ delays' = IF ~throws THEN Append(delays, delayAfterSearch)
                           ELSE IF isColruyt
                           THEN Append(delays, "longDelay(10000, 20000)")
                           ELSE delays
  /\ UNCHANGED <<isScraping, jobStores, storeIdx, jobPc, saved, supermarket,
                 config, browser, cachedProducts, results, productResults,
                 allProducts, currentPage, dom, returned, openBrowsers, calls,
                 cleanups, initializes, launched, navigations, tested>>
  /\ UNCHANGED functionVars

\* the finally of scrapeProducts and its return
Cleanup ==
  /\ pc = "cleanup"
  /\ LET c == cleanup(browser)
     IN  /\ openBrowsers' = c.openBrowsers
         /\ openContexts' = c.openContexts
         /\ record(c.events, lastOp)
  /\ cleanups' = cleanups + 1
  /\ returned' = Some(results)
  /\ pc' = "returned"
  /\ UNCHANGED <<serverVars, objectVars, results, idx, productResults,
                 allProducts, currentPage, dom, calls, initializes, launched,
                 navigations, resets, delays, tested, callbacks>>
  /\ UNCHANGED functionVars

(***************************************************************************)
(* Specification                                                           *)
(***************************************************************************)
Next ==
  \/ \E supermarkets \in ConfigSupermarketLists, requestedLower \in RequestedStores :
       PostScrape(supermarkets, requestedLower)
  \/ PostScrapeRejected
  \/ JobNextStore
  \/ JobUnsupportedStore
  \/ \E outcome \in InitializeOutcomes : ScrapeProductsStart(outcome)
  \/ \E outcome \in NavigateOutcomes :
       \E content \in IF outcome = "ok" THEN PageContents ELSE {<<>>} :
         LoadDelhaize(outcome, content)
  \/ \E outcome \in NavigateOutcomes :
       \E content \in IF outcome = "ok" THEN PageContents ELSE {<<>>} :
         ColruytFirstPage(outcome, content)
  \/ \E nextPageExists \in BOOLEAN, outcome \in NavigateOutcomes :
       \E content \in IF nextPageExists /\ outcome = "ok"
                      THEN NextPageContents ELSE {<<>>} :
         ColruytPagination(nextPageExists, outcome, content)
  \/ \E outcome \in NavigateOutcomes :
       \E content \in IF outcome = "ok" THEN PageContents ELSE {<<>>} :
         CarrefourFirstPage(outcome, content)
  \/ \E resetOutcome \in ResetOutcomesIf(TRUE), outcome \in PageOutcomes :
       \E content \in IF outcome = "ok" THEN NextPageContents ELSE {<<>>} :
         CarrefourPagination(resetOutcome, outcome, content)
  \/ MatchProduct
  \/ \E resetOutcome \in ResetOutcomesIf(isColruyt /\ idx > 1),
        outcome \in NavigateOutcomes :
       \E content \in IF outcome = "ok" THEN PageContents ELSE {<<>>} :
         SearchProduct(resetOutcome, outcome, content)
  \/ \E throws \in BOOLEAN :
       \E resetOutcome \in ResetOutcomesIf(throws /\ isColruyt) :
         Callback(throws, resetOutcome)
  \/ Cleanup
  \/ JobCollect
  \/ \E saveOutcome \in SaveOutcomes : JobFinish(saveOutcome)

Spec == Init /\ [][Next]_vars

\* where the background job stands: its store, the position inside
\* scrapeProducts, the product and the result page
jobPosition == <<jobPc, storeIdx, pc, idx, currentPage>>

\* the job moves on to some position
JobMoves ==
  /\ isScraping
  /\ jobPc' \in {"job", "scraping", "done"}
  /\ storeIdx' \in 1..(MaxStores + 1)
  /\ pc' \in {"none", "call", "load", "pages", "loop", "callback", "cleanup",
              "returned"}
  /\ idx' \in 1..(Len(ConfigProducts) + 1)
  /\ currentPage' \in 1..(MaxPagesCarrefour + 1)

\* every operation the job awaits returns or times out, and the continuation
\* is then run: a running job does not stay at one position for ever
SpecLive == Init /\ [][Next]_vars /\ WF_jobPosition(JobMoves)

(***************************************************************************)
(* A caller that uses a scraper object again: scrapeProducts is public and *)
(* cleanup() leaves this.browser and this.page as they are                 *)
(***************************************************************************)
MaxCalls == 2

\* the jobs in which an object is used again have at most so many stores
MaxReuseStores == 1

CallAgain ==
  /\ jobPc = "scraping"
  /\ pc = "returned"
  /\ calls < MaxCalls
  /\ Len(jobStores) <= MaxReuseStores
  /\ pc' = "call"
  /\ UNCHANGED <<serverVars, objectVars, results, idx, productResults,
                 allProducts, currentPage, dom, returned, worldVars,
                 historyVars>>
  /\ UNCHANGED functionVars

NextReuse == Next \/ CallAgain

SpecReuse == Init /\ [][NextReuse]_vars

(***************************************************************************)
(* One call of filterProduct on given arguments                            *)
(***************************************************************************)
\* this.cachedProducts: the records of a catalog, name and quantity text
FilterCatalogs ==
  {<<>>,
   <<[name |-> <<"J", "u", "p", "i", "l", "e", "r", " ", "P", "i", "l", "s", " ", "6", "x", "3", "3", "c", "l">>,
      quantityText |-> <<>>],
     [name |-> <<"S", "t", "e", "l", "l", "a", " ", "A", "r", "t", "o", "i", "s", " ", "6", "x", "3", "3", "c", "l">>,
      quantityText |-> <<>>]>>,
   <<[name |-> <<"J", "u", "p", "i", "l", "e", "r", " ", "P", "i", "l", "s">>,
      quantityText |-> <<"6", "x", "3", "3", "c", "l">>],
     [name |-> <<"J", "u", "p", "i", "l", "e", "r", " ", "0", ".", "0", "%", " ", "6", "x", "3", "3", "c", "l">>,
      quantityText |-> <<>>],
     [name |-> <<"J", "u", "p", "i", "l", "e", "r", " ", "b", "e", "k", "e", "r", " ", "6", "x", "3", "3", "c", "l">>,
      quantityText |-> <<>>],
     [name |-> <<"C", "o", "l", "a">>,
      quantityText |-> <<"6", "x", "3", "3", "c", "l">>]>>}

CatalogInputs == FilterCatalogs \X FilterProducts \X FilterConfigs

\* for (const item of this.cachedProducts): the records filterProduct keeps
RECURSIVE productResultsOf(_, _, _)
productResultsOf(items, product, scrapingConfig) ==
  IF items = <<>> THEN <<>>
  ELSE LET item == Head(items)
       IN  (IF filterProduct(item.name, product, item.quantityText, scrapingConfig)
            THEN <<[productName |-> item.name, targetProduct |-> product.name]>>
            ELSE <<>>) \o productResultsOf(Tail(items), product, scrapingConfig)

\* the terms of const keywordSynonyms: its keys and the synonyms it lists
SynonymTerms ==
  {<<"b", "a", "k">>,
   <<"k", "r", "a", "t">>,
   <<"c", "r", "a", "t", "e">>,
   <<"c", "a", "s", "e">>,
   <<"f", "l", "e", "s">>,
   <<"f", "l", "e", "s", "j", "e">>,
   <<"b", "o", "t", "t", "l", "e">>}

\* a text of a record that contains the term
textWith(term) == <<"J", "u", "p", "i", "l", "e", "r", " ">> \o term \o <<" ", "2", "4", "x", "2", "5", "c", "l">>

\* text and keyword of a call of matchesKeyword
MatchInputs == {<<textWith(b), a>> : a \in SynonymTerms, b \in SynonymTerms}

\* ProductStoreOverride with every field given, and with mustContain alone
OverrideFull ==
  [searchTerms |-> Some(<<K_stella>>),
   requiredKeywords |-> Some(<<K_stella>>),
   mustContain |-> Some(<<K_24x25>>),
   preferredKeywords |-> Some(<<K_bak>>)]

OverridePartial ==
  [searchTerms |-> None,
   requiredKeywords |-> None,
   mustContain |-> Some(<<K_24x25>>),
   preferredKeywords |-> None]

\* product.storeOverrides: absent, or one entry under a store name
StoreOverrideChoices ==
  {None} \cup
  {Some(<<[key |-> k, value |-> v]>>) :
     k \in {N_Colruyt, <<"C", "O", "L", "R", "U", "Y", "T">>, N_Delhaize},
     v \in {OverrideFull, OverridePartial}}

\* the products applyStoreOverrides is called with
OverrideProducts ==
  {[name |-> <<"J", "u", "p", "i", "l", "e", "r", " ", "6", "x", "3", "3", "c", "l">>,
    searchTerms |-> <<K_jupiler>>,
    requiredKeywords |-> Some(<<K_jupiler>>),
    mustContain |-> Some(<<K_6x33>>),
    preferredKeywords |-> None,
    storeOverrides |-> o] : o \in StoreOverrideChoices}

\* this.supermarket.name of the scraper
OverrideStores == {N_Colruyt, <<"c", "o", "l", "r", "u", "y", "t">>, N_Delhaize, N_Carrefour}

OverrideInputs == OverrideProducts \X OverrideStores

\* the filter loop of scrapeProducts for one configured product
StoreMatchInputs == FilterCatalogs \X OverrideProducts \X OverrideStores

\* const product = this.applyStoreOverrides(originalProduct), then the loop
\* over this.cachedProducts
storeMatches(items, originalProduct, storeName, scrapingConfig) ==
  productResultsOf(items, applyStoreOverrides(originalProduct, storeName),
                   scrapingConfig)

\* the longest list of results that is grouped
MaxResults == 3

\* priceValue of a result in hundredths: absent, zero, or a price
ResultPrices == {None, Some(0), Some(249), Some(1679)}

\* ScrapedProduct: the fields the grouping reads; link tells where in the
\* list the result was found
ResultLists ==
  UNION {{[i \in 1..n |-> [productName |-> ListingJupiler.name,
                          targetProduct |-> target[i],
                          priceValue |-> price[i],
                          link |-> i]] :
            target \in [1..n -> {ProductJupiler.name, ProductStella.name}],
            price \in [1..n -> ResultPrices]} : n \in 0..MaxResults}

\* a listing without product name
ListingNoName ==
  [name |-> <<>>, priceText |-> <<"€", "2", ",", "4", "9">>,
   link |-> "/none", quantityText |-> <<>>]

\* the scraper variants and the listing elements they extract from
ExtractInputs ==
  {"DelhaizeScraper", "ColruytScraper", "BabylonScraper", "PrikentikScraper",
   "CarrefourScraper"} \X (AllListings \cup {ListingNoName})

\* the options initialize() passes to browser.newContext
initializeContextOptions(userAgent) ==
  [userAgent |-> userAgent,
   viewport |-> [width |-> 1920, height |-> 1080],
   locale |-> "nl-BE",
   timezoneId |-> "Europe/Brussels",
   permissions |-> {"geolocation"},
   geolocation |-> [latitude |-> "50.8503", longitude |-> "4.3517"],
   colorScheme |-> "light",
   extraHTTPHeaders |->
     {<<"Accept-Language", "nl-BE,nl;q=0.9,en;q=0.8">>,
      <<"Accept-Encoding", "gzip, deflate, br">>,
      <<"Accept", "text/html,application/xhtml+xml,application/xml;q=0.9,image/webp,image/apng,*/*;q=0.8">>,
      <<"Connection", "keep-alive">>,
      <<"Upgrade-Insecure-Requests", "1">>,
      <<"Sec-Fetch-Dest", "document">>,
      <<"Sec-Fetch-Mode", "navigate">>,
      <<"Sec-Fetch-Site", "none">>,
      <<"Sec-Fetch-User", "?1">>,
      <<"Cache-Control", "max-age=0">>,
      <<"DNT", "1">>}]

\* the options resetContext() passes to browser.newContext
resetContextOptions(userAgent) ==
  [userAgent |-> userAgent,
   viewport |-> [width |-> 1920, height |-> 1080],
   locale |-> "nl-BE",
   timezoneId |-> "Europe/Brussels",
   permissions |-> {"geolocation"},
   geolocation |-> [latitude |-> "50.8503", longitude |-> "4.3517"],
   colorScheme |-> "light",
   extraHTTPHeaders |->
     {<<"Accept-Language", "nl-BE,nl;q=0.9,en;q=0.8">>,
      <<"Accept-Encoding", "gzip, deflate, br">>,
      <<"Accept", "text/html,application/xhtml+xml,application/xml;q=0.9,image/webp,*/*;q=0.8">>,
      <<"Connection", "keep-alive">>,
      <<"Upgrade-Insecure-Requests", "1">>,
      <<"Sec-Fetch-Dest", "document">>,
      <<"Sec-Fetch-Mode", "navigate">>,
      <<"Sec-Fetch-Site", "none">>,
      <<"Cache-Control", "max-age=0">>}]

\* the options of the context the method creates
newContextOptions(method, userAgent) ==
  IF method = "initialize" THEN initializeContextOptions(userAgent)
  ELSE resetContextOptions(userAgent)

\* the method that creates a context and this.config.userAgent
ContextInputs == {"initialize", "resetContext"} \X {"Mozilla/5.0 (Windows)", "Mozilla/5.0 (Macintosh)"}

InitFunctions ==
  /\ \/ fn = "filterProduct" /\ args \in FilterInputs
     \/ fn = "productResults" /\ args \in CatalogInputs
     \/ fn = "matchesKeyword" /\ args \in MatchInputs
     \/ fn = "applyStoreOverrides" /\ args \in OverrideInputs
     \/ fn = "storeMatches" /\ args \in StoreMatchInputs
     \/ fn \in {"processResults", "groupByProduct"} /\ args \in ResultLists
     \/ fn = "extractProductDetails" /\ args \in ExtractInputs
     \/ fn = "newContext" /\ args \in ContextInputs
  /\ out = None
  /\ Idle

\* this.filterProduct(productName, product, additionalText)
ApplyFilterProduct ==
  /\ fn = "filterProduct"
  /\ out = None
  /\ out' = Some(filterProduct(args[1], args[2], args[3], args[4]))
  /\ UNCHANGED <<fn, args, serverVars, objectVars, callVars, worldVars, historyVars>>

\* the loop over the cached catalog for one target product
ApplyProductResults ==
  /\ fn = "productResults"
  /\ out = None
  /\ out' = Some(productResultsOf(args[1], args[2], args[3]))
  /\ UNCHANGED <<fn, args, serverVars, objectVars, callVars, worldVars, historyVars>>

\* this.matchesKeyword(text, keyword)
ApplyMatchesKeyword ==
  /\ fn = "matchesKeyword"
  /\ out = None
  /\ out' = Some(matchesKeyword(args[1], args[2]))
  /\ UNCHANGED <<fn, args, serverVars, objectVars, callVars, worldVars, historyVars>>

\* this.applyStoreOverrides(product)
ApplyStoreOverrides ==
  /\ fn = "applyStoreOverrides"
  /\ out = None
  /\ out' = Some(applyStoreOverrides(args[1], args[2]))
  /\ UNCHANGED <<fn, args, serverVars, objectVars, callVars, worldVars, historyVars>>

\* the filter loop of scrapeProducts on a configured product
ApplyStoreMatches ==
  /\ fn = "storeMatches"
  /\ out = None
  /\ \E scrapingConfig \in Configs :
       out' = Some(storeMatches(args[1], args[2], args[3], scrapingConfig))
  /\ UNCHANGED <<fn, args, serverVars, objectVars, callVars, worldVars, historyVars>>

\* processResults(allResults) of the server
ApplyProcessResults ==
  /\ fn = "processResults"
  /\ out = None
  /\ out' = Some(processResults(args))
  /\ UNCHANGED <<fn, args, serverVars, objectVars, callVars, worldVars, historyVars>>

\* OutputGenerator.groupByProduct(results)
ApplyGroupByProduct ==
  /\ fn = "groupByProduct"
  /\ out = None
  /\ out' = Some(groupByProduct(args))
  /\ UNCHANGED <<fn, args, serverVars, objectVars, callVars, worldVars, historyVars>>

\* this.extractProductDetails(element)
ApplyExtractProductDetails ==
  /\ fn = "extractProductDetails"
  /\ out = None
  /\ out' = Some(extractProductDetailsOf(args[1], args[2]))
  /\ UNCHANGED <<fn, args, serverVars, objectVars, callVars, worldVars, historyVars>>

\* this.browser.newContext({...}) of initialize and of resetContext
ApplyNewContext ==
  /\ fn = "newContext"
  /\ out = None
  /\ out' = Some(newContextOptions(args[1], args[2]))
  /\ UNCHANGED <<fn, args, serverVars, objectVars, callVars, worldVars, historyVars>>

NextFunctions ==
  \/ ApplyFilterProduct
  \/ ApplyProductResults
  \/ ApplyMatchesKeyword
  \/ ApplyStoreOverrides
  \/ ApplyStoreMatches
  \/ ApplyProcessResults
  \/ ApplyGroupByProduct
  \/ ApplyExtractProductDetails
  \/ ApplyNewContext

SpecFunctions == InitFunctions /\ [][NextFunctions]_vars

(***************************************************************************)
(* Properties of scrapeProducts and of the scrape job                      *)
(***************************************************************************)
NumProducts == Len(ConfigProducts)

\* scrapeProducts is inside its try block or in its finally
running == pc \in {"load", "pages", "loop", "callback", "cleanup"}

\* the in-order concatenation of the first arguments of the first k
\* callback invocations
RECURSIVE firstArguments(_)
firstArguments(k) ==
  IF k = 0 THEN <<>> ELSE firstArguments(k - 1) \o callbacks[k].newResults

noDuplicates(list) ==
  \A i, j \in 1..Len(list) : sameEntry(list[i], list[j]) => i = j

C2_LaterProductsProcessed ==
  (pc \in {"cleanup", "returned"} /\ callbacks # <<>>) => idx = NumProducts + 1

\* C3: the final result set of a job (the list of the 'complete' broadcast,
\* the list given to saveResults) holds no two entries with the same product
\* name, store and link.
C3_FinalSetHasNoDuplicates ==
  jobPc = "done" =>
    /\ noDuplicates(allResults)
    /\ isSome(saved) => noDuplicates(get(saved))

\* C4: in one run the callback is invoked exactly once for each target
\* product whose match set in the catalog is not empty, in the order of the
\* products, and never for a product without matches.
C4_OneCallbackPerMatchingProduct ==
  (pc = "returned" /\ variant \in OverridingVariants /\ isSome(cachedProducts)) =>
    /\ \A i \in 1..NumProducts :
         (Len(matchesOf(get(cachedProducts), i)) > 0)
           <=> (\E j \in 1..Len(callbacks) : callbacks[j].product = i)
    /\ \A j, k \in 1..Len(callbacks) :
         j < k => callbacks[j].product < callbacks[k].product

\* C5: the first argument of every callback invocation holds the matches of
\* one target product, no record has been tested against a later product
\* when it is made, its second argument is the concatenation of the first
\* arguments so far, and scrapeProducts returns that concatenation.
C5_CallbackArguments ==
  /\ \A j \in 1..Len(callbacks) :
       LET call == callbacks[j]
       IN  /\ call.newResults # <<>>
           /\ \A r \in 1..Len(call.newResults) :
                call.newResults[r].targetProduct = ConfigProducts[call.product].name
           /\ call.product \in call.tested
           /\ call.tested \subseteq 1..call.product
           /\ call.allResults = firstArguments(j)
  /\ (pc = "returned" /\ supermarket.enabled) =>
       get(returned) = firstArguments(Len(callbacks))

\* a returned call that invoked the callback for both target products
C5_Witness ==
  /\ pc = "returned"
  /\ Len(callbacks) = NumProducts
  /\ NumProducts > 1

\* C6: in one run of a store's scraper the catalog load (navigation to the
\* listing and extraction) is performed at most once, whatever the outcome of
\* the first attempt.
C6_CatalogLoadedAtMostOnce ==
  variant \in {"PrikentikScraper", "BabylonScraper"} => navigations <= 1

C8_ResetKeepsAUsablePage ==
  /\ keptOldPage
  /\ (initialized /\ ~closed /\ page # NoId) => <<browser, page>> \in openContexts

initializeFailed ==
  supermarket.enabled /\ pc \in {"cleanup", "returned"} /\ ~initialized

\* C10: when initialize() fails, scrapeProducts loads no catalog, invokes no
\* callback, does not initialize again and returns an empty list; the job
\* then goes on with the next store without an 'error' broadcast and a job
\* that is over has sent 'complete' last.
C10_InitializeFailure ==
  /\ [](initializeFailed =>
          /\ navigations = 0
          /\ callbacks = <<>>
          /\ initializes = 1
          /\ pc = "returned" => returned = Some(<<>>))
  /\ []((pc = "returned" /\ ~initialized) => jobPc = "scraping")
  /\ [][(pc = "returned" /\ ~initialized) =>
          /\ jobPc' = "job"
          /\ storeIdx' = storeIdx + 1
          /\ broadcasts' = broadcasts]_vars
  /\ [](jobPc = "done" =>
          /\ ~isScraping
          /\ broadcasts[Len(broadcasts)].type = "complete")

\* scrapeProducts has returned after a failed initialize() and a further
\* store is left
C10_Witness ==
  /\ initializeFailed
  /\ pc = "returned"
  /\ launched # {}
  /\ storeIdx < Len(jobStores)

\* C11: a failed navigation to the catalog listing does not end the catalog
\* load: once scrapeProducts has initialized, it leaves its try block only
\* with the catalog extracted from what the page showed (the cache is set).
C11_NavigationFailureIsNotFatal ==
  (variant \in OverridingVariants /\ initialized /\ pc \in {"cleanup", "returned"})
    => isSome(cachedProducts)

knownStoreNames ==
  {<<"d", "e", "l", "h", "a", "i", "z", "e">>,
   <<"c", "o", "l", "r", "u", "y", "t">>,
   <<"b", "a", "b", "y", "l", "o", "n">>,
   <<"b", "a", "b", "y", "l", "o", "n", " ", "d", "r", "i", "n", "k", "s">>,
   <<"p", "r", "i", "k", "&", "t", "i", "k">>,
   <<"p", "r", "i", "k", " ", "e", "n", " ", "t", "i", "k">>,
   <<"p", "r", "i", "k", "e", "n", "t", "i", "k">>,
   <<"c", "a", "r", "r", "e", "f", "o", "u", "r">>}

unsupported(name) == toLowerCase(name) \notin knownStoreNames

\* the variant each known name stands for, by its first letters
expectedVariant(name) ==
  LET n == toLowerCase(name)
  IN  IF unsupported(name) THEN "none"
      ELSE CASE n[1] = "d" -> "DelhaizeScraper" []
                n[1] = "b" -> "BabylonScraper" []
                n[1] = "p" -> "PrikentikScraper" []
                n[2] = "o" -> "ColruytScraper" []
                OTHER -> "CarrefourScraper"

broadcastOf(type, store) ==
  \E k \in 1..Len(broadcasts) :
    broadcasts[k].type = type /\ broadcasts[k].supermarket = store

\* C13: ScraperFactory.create maps every known name or alias to its variant
\* whatever the letter case and every other name to the unsupported-store
\* error; in a job an unsupported store launches no browser, gets an 'error'
\* broadcast, contributes no result, and the store loop goes on to the
\* stores after it, all of which are taken up before the job is done.
C13_UnsupportedStore ==
  /\ [](/\ \A n \in FactoryNames : VariantOf[n] = expectedVariant(n)
        /\ \A i \in 1..Len(jobStores) :
             (i < storeIdx /\ unsupported(jobStores[i].name)) =>
               /\ broadcastOf("error", jobStores[i].name)
               /\ \A k \in 1..Len(allResults) :
                    allResults[k].supermarket # jobStores[i].name
        /\ jobPc = "done" =>
             \A i \in 1..Len(jobStores) : broadcastOf("processing", jobStores[i].name))
  /\ [][(/\ jobPc = "job"
         /\ storeIdx <= Len(jobStores)
         /\ unsupported(jobStores[storeIdx].name))
          => /\ UNCHANGED <<openBrowsers, openContexts, launched, calls, allResults>>
             /\ jobPc' = "job"
             /\ storeIdx' = storeIdx + 1]_vars

\* a job whose first store is unsupported is done with results of the
\* store after it
C13_Witness ==
  /\ jobPc = "done"
  /\ Len(jobStores) = 2
  /\ unsupported(jobStores[1].name)
  /\ broadcastOf("error", jobStores[1].name)
  /\ allResults # <<>>

\* C14: when saveResults throws or has no backend, the finished job has
\* sent 'complete' with all results collected in memory as its last
\* message, currentResults holds them, no fatal 'error' was sent and
\* isScraping is false again.
C14_SaveFailureIsNotFatal ==
  (jobPc = "done" /\ saved = None) =>
    /\ broadcasts[Len(broadcasts)] =
         message("complete", <<>>, Len(allResults), processResults(allResults))
    /\ currentResults = allResults
    /\ ~broadcastOf("error", <<>>)
    /\ ~isScraping

\* a job that collected results is done and nothing was stored
C14_Witness ==
  /\ jobPc = "done"
  /\ saved = None
  /\ allResults # <<>>

\* the text the gates of filterProduct look at: name and metadata
combinedText(productName, additionalText) ==
  IF additionalText = <<>> THEN toLowerCase(productName)
  ELSE joinSpace(toLowerCase(productName), toLowerCase(additionalText))

\* the list is empty or absent, or one of its keywords matches the text
gateHolds(keywords, text) ==
  \/ keywords = None
  \/ get(keywords) = <<>>
  \/ \E i \in 1..Len(get(keywords)) : matchesKeyword(text, get(keywords)[i])

hasCategoryTerm(text) ==
  \E i \in 1..Len(beerTerms) : matchesKeyword(text, beerTerms[i])

\* C16: for a target product whose requiredKeywords is empty or absent,
\* filterProduct accepts a record only if its combined text contains one
\* of the category terms bier, pils, beer, ale, lager.
C16_CategorySanityCheck ==
  (/\ fn = "filterProduct"
   /\ out = Some(TRUE)
   /\ args[2].requiredKeywords \in {None, Some(<<>>)})
    => hasCategoryTerm(combinedText(args[1], args[3]))

\* a zero-alcohol marker of the list of filterProduct is part of the text
hasZeroAlcoholMarker(text) ==
  \E i \in 1..Len(alcoholFreePatterns) : includes(text, alcoholFreePatterns[i])

\* C17: with excludeAlcoholFree true filterProduct rejects every record
\* whose combined text holds a zero-alcohol marker, whatever the keyword
\* gates decide; with the flag false or absent the result does not depend
\* on which of the two the flag is, and a record whose metadata is the
\* marker 'alcoholvrij' gets the result of the record without metadata.
C17_AlcoholFreeExclusion ==
  /\ (/\ fn = "filterProduct"
      /\ isSome(out)
      /\ args[4].excludeAlcoholFree = Some(TRUE)
      /\ hasZeroAlcoholMarker(combinedText(args[1], args[3])))
       => ~get(out)
  /\ (/\ fn = "filterProduct"
      /\ isSome(out)
      /\ args[4].excludeAlcoholFree \in {Some(FALSE), None})
       => /\ \A c \in FilterConfigs :
               c.excludeAlcoholFree \in {Some(FALSE), None} =>
                 get(out) = filterProduct(args[1], args[2], args[3], c)
          /\ args[3] \in {<<>>, <<"a", "l", "c", "o", "h", "o", "l", "v", "r", "i", "j">>} =>
               \A t \in {<<>>, <<"a", "l", "c", "o", "h", "o", "l", "v", "r", "i", "j">>} :
                 get(out) = filterProduct(args[1], args[2], t, args[4])

\* the call on 'Jupiler 0.0% 6x33cl' with the Jupiler target and the flag
\* set has returned
C17_Witness ==
  /\ fn = "filterProduct"
  /\ isSome(out)
  /\ args[1] = <<"J", "u", "p", "i", "l", "e", "r", " ", "0", ".", "0", "%", " ", "6", "x", "3", "3", "c", "l">>
  /\ args[2].requiredKeywords = Some(<<K_jupiler>>)
  /\ args[2].mustContain = Some(<<K_6x33>>)
  /\ args[4].excludeAlcoholFree = Some(TRUE)
  /\ ~get(out)

\* a merchandise term of the list of filterProduct is part of the text
hasMerchandiseTerm(text) ==
  \E i \in 1..Len(excludeTerms) : includes(text, excludeTerms[i])

\* C18: filterProduct accepts no record whose text, product name or
\* metadata, contains one of the merchandise terms (glas, beker, ...).
C18_MerchandiseExclusion ==
  (fn = "filterProduct" /\ out = Some(TRUE))
    => ~hasMerchandiseTerm(combinedText(args[1], args[3]))

\* the values preferredKeywords takes: configured, empty, absent
PreferredChoices == {Some(<<K_bak>>), Some(<<>>), None}

\* C19: preferredKeywords is informational: filterProduct returns the same
\* value for every target product that differs from the given one in
\* preferredKeywords alone, and the matches found in a catalog are the same.
C19_PreferredKeywordsInformational ==
  /\ (fn = "filterProduct" /\ isSome(out)) =>
       \A preferred \in PreferredChoices :
         get(out) = filterProduct(args[1],
                                  [args[2] EXCEPT !.preferredKeywords = preferred],
                                  args[3], args[4])
  /\ (fn = "productResults" /\ isSome(out)) =>
       \A preferred \in PreferredChoices :
         get(out) = productResultsOf(args[1],
                                     [args[2] EXCEPT !.preferredKeywords = preferred],
                                     args[3])

\* a record without the preferred keyword 'bak' was accepted for a target
\* product that prefers it
C19_Witness ==
  /\ fn = "filterProduct"
  /\ out = Some(TRUE)
  /\ args[2].preferredKeywords = Some(<<K_bak>>)
  /\ ~matchesKeyword(combinedText(args[1], args[3]), K_bak)

\* the text without its letter case and its diacritics
foldCaseAndDiacritics(value) ==
  [i \in 1..Len(value) |-> stripDiacritic(toLowerCase(value)[i])]

\* two texts that differ in letter case and diacritics at most
sameLetters(a, b) == foldCaseAndDiacritics(a) = foldCaseAndDiacritics(b)

\* C20: the result of filterProduct does not change when the letter case
\* of the name or the metadata of the record changes or when diacritics
\* are added to or removed from them.
C20_CaseAndDiacriticInvariance ==
  (fn = "filterProduct" /\ isSome(out)) =>
    \A name \in FilterNames, text \in FilterTexts :
      (sameLetters(name, args[1]) /\ sameLetters(text, args[3]))
        => filterProduct(name, args[2], text, args[4]) = get(out)

\* C21: the synonym table works in both directions: if keyword a matches
\* a text that contains the term b of the table, then keyword b matches
\* the text that contains a.
C21_SynonymsAreBidirectional ==
  (fn = "matchesKeyword" /\ out = Some(TRUE)) =>
    \A b \in SynonymTerms :
      args[1] = textWith(b) => matchesKeyword(textWith(args[2]), b)

\* the override entries of the product whose key is the store name,
\* letter case ignored
matchingOverrides(product, storeName) ==
  IF product.storeOverrides = None THEN {}
  ELSE {get(product.storeOverrides)[i].value :
          i \in {j \in 1..Len(get(product.storeOverrides)) :
                   toLowerCase(get(product.storeOverrides)[j].key) = toLowerCase(storeName)}}

\* the product with every field the entry gives in place of its own
withOverride(product, override) ==
  [product EXCEPT
     !.searchTerms = IF isSome(override.searchTerms) THEN get(override.searchTerms) ELSE @,
     !.requiredKeywords = IF isSome(override.requiredKeywords) THEN override.requiredKeywords ELSE @,
     !.mustContain = IF isSome(override.mustContain) THEN override.mustContain ELSE @,
     !.preferredKeywords = IF isSome(override.preferredKeywords) THEN override.preferredKeywords ELSE @]

\* C22 as stated: with an override entry for the store, the four filter
\* fields of the effective product are those of the entry and the name is
\* the one of the base product; without such an entry the effective
\* product is the base product.
C22_OverrideReplacesAllFields ==
  (fn = "applyStoreOverrides" /\ isSome(out)) =>
    /\ \A override \in matchingOverrides(args[1], args[2]) :
         /\ Some(get(out).searchTerms) = override.searchTerms
         /\ get(out).requiredKeywords = override.requiredKeywords
         /\ get(out).mustContain = override.mustContain
         /\ get(out).preferredKeywords = override.preferredKeywords
         /\ get(out).name = args[1].name
    /\ matchingOverrides(args[1], args[2]) = {} => get(out) = args[1]

\* C22, amended: with an override entry for the store (letter case
\* ignored), each of searchTerms, requiredKeywords, mustContain and
\* preferredKeywords that the entry gives replaces the field of the base
\* product as a whole and each field the entry leaves out keeps the value
\* of the base product; name and storeOverrides are unchanged; without such
\* an entry the effective product is the base product; the filter loop of
\* scrapeProducts tests the records against this effective product.
C22_OverrideReplacesGivenFields ==
  /\ (fn = "applyStoreOverrides" /\ isSome(out)) =>
       /\ \A override \in matchingOverrides(args[1], args[2]) :
            /\ get(out).searchTerms =
                 (IF isSome(override.searchTerms) THEN get(override.searchTerms)
                  ELSE args[1].searchTerms)
            /\ get(out).requiredKeywords =
                 (IF isSome(override.requiredKeywords) THEN override.requiredKeywords
                  ELSE args[1].requiredKeywords)
            /\ get(out).mustContain =
                 (IF isSome(override.mustContain) THEN override.mustContain
                  ELSE args[1].mustContain)
            /\ get(out).preferredKeywords =
                 (IF isSome(override.preferredKeywords) THEN override.preferredKeywords
                  ELSE args[1].preferredKeywords)
            /\ get(out).name = args[1].name
            /\ get(out).storeOverrides = args[1].storeOverrides
       /\ matchingOverrides(args[1], args[2]) = {} => get(out) = args[1]
  /\ (fn = "storeMatches" /\ isSome(out)) =>
       \A scrapingConfig \in Configs :
         /\ \A override \in matchingOverrides(args[2], args[3]) :
              get(out) = productResultsOf(args[1], withOverride(args[2], override),
                                          scrapingConfig)
         /\ matchingOverrides(args[2], args[3]) = {} =>
              get(out) = productResultsOf(args[1], args[2], scrapingConfig)

\* the product with an entry under 'COLRUYT' that gives mustContain alone
\* was resolved for the store Colruyt
C22_Witness ==
  /\ fn = "applyStoreOverrides"
  /\ isSome(out)
  /\ args[2] = N_Colruyt
  /\ matchingOverrides(args[1], args[2]) = {OverridePartial}
  /\ get(out).mustContain = Some(<<K_24x25>>)
  /\ get(out).requiredKeywords = Some(<<K_jupiler>>)

\* the entries of a group are ordered by price: priced entries
\* non-decreasing, entries without numeric price behind them, ties in the
\* order of discovery
orderedByPrice(items) ==
  \A i \in 1..Len(items), j \in 1..Len(items) :
    i < j =>
      /\ (isSome(items[i].priceValue) /\ isSome(items[j].priceValue)) =>
           get(items[i].priceValue) <= get(items[j].priceValue)
      /\ ~(items[i].priceValue = None /\ isSome(items[j].priceValue))
      /\ items[i].priceValue = items[j].priceValue => items[i].link < items[j].link

\* C23: every group of processResults and of groupByProduct lists its
\* priced entries in non-decreasing price order, the entries without
\* numeric price after them, and ties in their order of discovery.
C23_GroupsSortedByPrice ==
  (fn \in {"processResults", "groupByProduct"} /\ isSome(out)) =>
    \A g \in 1..Len(get(out)) : orderedByPrice(get(out)[g].items)

isPrefix(a, b) == Len(a) <= Len(b) /\ SubSeq(b, 1, Len(a)) = a

\* C25: catalog pagination ends: the Carrefour loop loads 5 pages at most
\* and the Colruyt loop 3, every turn that stays in the loop moves to the
\* next page, and a Carrefour turn that sees a block, no new record or an
\* error leaves the loop with the records of the pages before as the cache.
C25_PaginationTerminates ==
  /\ [](/\ variant = "CarrefourScraper" =>
             /\ navigations <= MaxPagesCarrefour
             /\ pc = "pages" => currentPage <= MaxPagesCarrefour
        /\ variant = "ColruytScraper" =>
             /\ navigations <= MaxPagesColruyt
             /\ pc = "pages" => currentPage < MaxPagesColruyt)
  /\ [][(pc = "pages" /\ pc' = "pages") =>
          /\ currentPage' = currentPage + 1
          /\ navigations' = navigations + 1
          /\ variant = "CarrefourScraper" => Len(allProducts') > Len(allProducts)]_vars
  /\ [][(pc = "pages" /\ pc' # "pages" /\ variant = "CarrefourScraper") =>
          /\ isPrefix(allProducts, allProducts')
          /\ cachedProducts' = Some(allProducts')
          /\ (Len(dom') = 0 \/ ExtractedOf[dom'] = <<>>) =>
               cachedProducts' = Some(allProducts)]_vars

\* the Carrefour loop has loaded all five pages and the cache holds the
\* records of each of them
C25_Witness ==
  /\ variant = "CarrefourScraper"
  /\ navigations = MaxPagesCarrefour
  /\ isSome(cachedProducts)
  /\ Len(get(cachedProducts)) >= MaxPagesCarrefour

\* C26: the context resetContext creates has the fingerprint settings of
\* the context initialize creates: user agent, viewport, locale, timezone,
\* geolocation, colour scheme and the extra HTTP headers with their values.
C26_ResetKeepsFingerprint ==
  (fn = "newContext" /\ isSome(out)) =>
    get(out) = newContextOptions("initialize", args[2])

\* the contexts that are open in the browser of the session
sessionContexts(contexts) == {bc \in contexts : bc[1] = browser}

\* C27: when a resetContext call returns, whether it succeeded or one of
\* its steps failed, exactly one context is open in the session's browser.
C27_ResetLeaksNoContext ==
  [][resets' = resets + 1 =>
       Cardinality(sessionContexts(openContexts')) = 1]_vars

\* C28: when the Colruyt pagination has loaded more than one page, the
\* cache built afterwards holds the records of the page that was shown
\* before the last navigation, as it holds those of the last page.
C28_ColruytCacheHoldsAllPages ==
  [][(/\ variant = "ColruytScraper"
      /\ pc = "pages"
      /\ cachedProducts = None
      /\ isSome(cachedProducts')
      /\ currentPage' > 1)
       => \A i \in 1..Len(ExtractedOf[dom]) :
            \E j \in 1..Len(get(cachedProducts')) :
              get(cachedProducts')[j] = ExtractedOf[dom][i]]_vars

\* the broadcasts of one type sent for the whole job (no store named)
jobBroadcasts(type) ==
  Cardinality({i \in 1..Len(broadcasts) :
                 broadcasts[i].type = type /\ broadcasts[i].supermarket = <<>>})

\* C29: at most one job runs at a time. While isScraping is true every
\* POST /api/scrape is answered with status 400 and is a step that changes
\* nothing; a job is started only from a state where isScraping is false, in
\* one step that sets it, so jobs started and jobs ended differ by one exactly
\* while isScraping is true.
C29_OneJobAtATime ==
  /\ [](isScraping =>
          \A loaded \in BOOLEAN, supermarkets \in ConfigSupermarketLists,
             requestedLower \in RequestedStores :
            postScrapeStatus(isScraping, loaded, requestedLower,
              supermarketsToScrapeOf(supermarkets, requestedLower)) = 400)
  /\ [](jobBroadcasts("started") - jobBroadcasts("complete") - jobBroadcasts("error")
          = IF isScraping THEN 1 ELSE 0)
  /\ [][jobBroadcasts("started")' > jobBroadcasts("started")
          => ~isScraping /\ isScraping' /\ currentResults' = <<>>]_vars
  /\ [][isScraping /\ jobBroadcasts("started")' = jobBroadcasts("started")
          => jobStores' = jobStores]_vars

\* a job is running in the middle of a store, where a further request arrives
C29_Witness ==
  /\ isScraping
  /\ jobPc = "scraping"
  /\ pc = "loop"
  /\ postScrapeStatus(isScraping, TRUE, {}, jobStores) = 400

\* the requests that name no store or an enabled one are accepted
acceptsRequests(scraping) ==
  \A supermarkets \in ConfigSupermarketLists, requestedLower \in RequestedStores :
    LET toScrape == supermarketsToScrapeOf(supermarkets, requestedLower)
    IN  (requestedLower = {} \/ Len(toScrape) > 0)
          => postScrapeStatus(scraping, TRUE, requestedLower, toScrape) = 200

====
